---------------------------- MODULE Spec2Model ----------------------------
(***************************************************************************)
(* A model of the DevOps AI team orchestrator: the prompt router and the   *)
(* override extractor of main.py, the Kubernetes agent, the code review    *)
(* agent and the review-feedback parser of the GROQ client.                *)
(*                                                                         *)
(* Text is modelled as sequences of one-character strings so that Python's *)
(* substring tests ("k in normalized") and regular expressions are         *)
(* computed character by character, as the interpreter does.               *)
(***************************************************************************)
EXTENDS Integers, Sequences, FiniteSets, TLC

VARIABLES
    exTokens,   \* extractor: the words the prompt is made of
    exPrompt,   \* extractor: the prompt handed to _extract_overrides
    exPc,       \* extractor: "idle" | "extracted" | "built"
    exOut,      \* extractor: the override map of the first call
    exAgain,    \* extractor: the override map of a second call on the same text
    exCfg,      \* extractor: the KubernetesConfig built from exOut
    kCfg,       \* KubernetesAgent: self.config
    kFiles,     \* KubernetesAgent: the files on disk, path -> content
    kDirs,      \* KubernetesAgent: the directories on disk
    kOp,        \* KubernetesAgent: the last operation, "new" | "generate" | "apply"
    kGenCalls,  \* KubernetesAgent: the generate_manifests calls of this agent, counted to 2
    kRet,       \* KubernetesAgent: what the last generate_manifests returned
    kEnv,       \* KubernetesAgent: the cluster CLI the last apply_manifests met
    kCmds,      \* KubernetesAgent: the commands the last apply_manifests attempted
    kStatus,    \* KubernetesAgent: how the last apply_manifests ended
    rvClient,   \* CodeReviewAgent: self.github_client, "ok" | "unavailable"
    rvOp,       \* CodeReviewAgent: "new", then the call made on it: "perform" | "local" |
                \* "send" | "fetch" | "post" | "run"
    rvFiles,    \* CodeReviewAgent: the pull request's files at the last perform_code_review
    rvPath,     \* CodeReviewAgent: the path given to the last review_local_file
    rvReadable, \* CodeReviewAgent: what open() did with that path
    rvReply,    \* GROQClient: what the endpoint answered to the last single request
    rvResult,   \* CodeReviewAgent: what the last call returned
    rvRaised,   \* CodeReviewAgent: the exception that escaped the last call, or "none"
    rvRequests, \* GROQClient: the inference requests sent during the last call
    rvGithub,   \* CodeReviewAgent: what the GitHub API did during the last call, "up" | "down"
    rvFeedback, \* CodeReviewAgent: the feedback list given to post_feedback_to_github
    rvFailAt,   \* CodeReviewAgent: the entries whose create_issue_comment raised
    rvPosts,    \* CodeReviewAgent: the comments create_issue_comment was called with
    rtPrompt,   \* handle_prompt: the prompt
    rtPc,       \* handle_prompt: "start" | "routed" | "done"
    rtBranch,   \* handle_prompt: the branch of the ladder taken
    rtEnv,      \* handle_prompt: the environment the branch ran in
    rtBefore,   \* handle_prompt: the files on disk when it was called
    rtRun,      \* handle_prompt: what the branch did
    fcAgent,    \* fetch_config: the agent, "dockerfile" | "github_actions"
    fcBefore,   \* fetch_config: self.config before the call
    fcResult,   \* fetch_config: what groq_client.query did
    fcCfg,      \* fetch_config: self.config after the call
    fcRaised,   \* fetch_config: the exception that escaped the call, or "none"
    fcPc        \* fetch_config: "new" | "fetched"

exVars == <<exTokens, exPrompt, exPc, exOut, exAgain, exCfg>>

kVars == <<kCfg, kFiles, kDirs, kOp, kGenCalls, kRet, kEnv, kCmds, kStatus>>

rvPostVars == <<rvGithub, rvFeedback, rvFailAt, rvPosts>>

rvVars ==
    <<rvClient, rvOp, rvFiles, rvPath, rvReadable, rvReply, rvResult, rvRaised, rvRequests,
      rvPostVars>>

rtVars == <<rtPrompt, rtPc, rtBranch, rtEnv, rtBefore, rtRun>>

fcVars == <<fcAgent, fcBefore, fcResult, fcCfg, fcRaised, fcPc>>

vars == <<exVars, kVars, rvVars, rtVars, fcVars>>

---------------------------------------------------------------------------
(* Bounds of the model *)

\* the longest prompt over the override words handed to the extractor, in tokens
MaxTokens == 5

\* the longest prompt over the wider vocabulary handed to the extractor
MaxShort == 2

\* the most files of a pull request
MaxFiles == 3

\* the longest prompt over the routing words handed to handle_prompt, in words
MaxWords == 2

\* the phrases of a prompt given to the override extractor phrase by phrase
MaxPhrases == 2

---------------------------------------------------------------------------
(* Characters and strings *)

Digits == <<"0", "1", "2", "3", "4", "5", "6", "7", "8", "9">>

IsDigit(c) == \E d \in 1..10 : Digits[d] = c

DigitVal(c) == (CHOOSE d \in 1..10 : Digits[d] = c) - 1

\* Python's \s, over the characters prompts are built from
IsSpace(c) == c \in {" ", "\t", "\n"}

UpperCase == <<"A", "D", "E", "I", "L", "N", "O", "P", "R", "S", "T">>
LowerCase == <<"a", "d", "e", "i", "l", "n", "o", "p", "r", "s", "t">>

\* str.lower() on one character
LowerChar(c) ==
    IF \E k \in 1..Len(UpperCase) : UpperCase[k] = c
    THEN LowerCase[CHOOSE k \in 1..Len(UpperCase) : UpperCase[k] = c]
    ELSE c

\* str.lower()
Lower(t) == [k \in 1..Len(t) |-> LowerChar(t[k])]

\* t[i:i+len(w)] == w
At(t, i, w) ==
    /\ i >= 1
    /\ i + Len(w) - 1 <= Len(t)
    /\ \A k \in 1..Len(w) : t[i + k - 1] = w[k]

\* Python's "w in t" on strings
Contains(t, w) == \E i \in 1..(Len(t) - Len(w) + 1) : At(t, i, w)

\* any(k in t for k in ws)
ContainsAny(t, ws) == \E w \in ws : Contains(t, w)

\* the first position at or after i that holds no whitespace (\s* is greedy
\* and nothing that may follow it in the patterns below starts with a space)
RECURSIVE SkipSpace(_, _)
SkipSpace(t, i) ==
    IF i <= Len(t) /\ IsSpace(t[i]) THEN SkipSpace(t, i + 1) ELSE i

\* the number of digits at t[i], t[i+1], ... counted up to most
RECURSIVE DigitRun(_, _, _)
DigitRun(t, i, most) ==
    IF most > 0 /\ i <= Len(t) /\ IsDigit(t[i])
    THEN 1 + DigitRun(t, i + 1, most - 1)
    ELSE 0

\* int() of a string of decimal digits
RECURSIVE ParseInt(_)
ParseInt(ds) ==
    IF Len(ds) = 0 THEN 0
    ELSE 10 * ParseInt(SubSeq(ds, 1, Len(ds) - 1)) + DigitVal(ds[Len(ds)])

\* str() of a natural number
RECURSIVE IntToStr(_)
IntToStr(n) ==
    IF n < 10 THEN <<Digits[n + 1]>>
    ELSE IntToStr(n \div 10) \o <<Digits[(n % 10) + 1]>>

\* " ".join(ws)
RECURSIVE Join(_)
Join(ws) ==
    IF Len(ws) = 0 THEN <<>>
    ELSE IF Len(ws) = 1 THEN ws[1]
    ELSE ws[1] \o <<" ">> \o Join(Tail(ws))

\* the sequences over S of length n or less
RECURSIVE SeqsUpTo(_, _)
SeqsUpTo(S, n) ==
    IF n = 0 THEN {<<>>}
    ELSE LET shorter == SeqsUpTo(S, n - 1)
         IN  shorter \cup {Append(q, x) : q \in {p \in shorter : Len(p) = n - 1}, x \in S}

---------------------------------------------------------------------------
(* Words *)

\* the words of the patterns of _extract_overrides
OverrideWord ==
    [replica        |-> <<"r", "e", "p", "l", "i", "c", "a">>,
     replicas       |-> <<"r", "e", "p", "l", "i", "c", "a", "s">>,
     to             |-> <<"t", "o">>,
     expose         |-> <<"e", "x", "p", "o", "s", "e">>,
     service        |-> <<"s", "e", "r", "v", "i", "c", "e">>,
     port           |-> <<"p", "o", "r", "t">>,
     container      |-> <<"c", "o", "n", "t", "a", "i", "n", "e", "r">>,
     target         |-> <<"t", "a", "r", "g", "e", "t">>,
     loadbalancer   |-> <<"l", "o", "a", "d", "b", "a", "l", "a", "n", "c", "e", "r">>,
     nodeport       |-> <<"n", "o", "d", "e", "p", "o", "r", "t">>,
     clusterip      |-> <<"c", "l", "u", "s", "t", "e", "r", "i", "p">>]

\* the keywords of the routing ladder of handle_prompt
RouteWord ==
    [all            |-> <<"a", "l", "l">>,
     everything     |-> <<"e", "v", "e", "r", "y", "t", "h", "i", "n", "g">>,
     run_all        |-> <<"r", "u", "n", " ", "a", "l", "l">>,
     pipeline       |-> <<"p", "i", "p", "e", "l", "i", "n", "e">>,
     github_actions |-> <<"g", "i", "t", "h", "u", "b", " ", "a", "c", "t", "i", "o", "n", "s">>,
     workflow       |-> <<"w", "o", "r", "k", "f", "l", "o", "w">>,
     dockerfile     |-> <<"d", "o", "c", "k", "e", "r", "f", "i", "l", "e">>,
     build          |-> <<"b", "u", "i", "l", "d">>,
     predict        |-> <<"p", "r", "e", "d", "i", "c", "t">>,
     prediction     |-> <<"p", "r", "e", "d", "i", "c", "t", "i", "o", "n">>,
     k8s            |-> <<"k", "8", "s">>,
     kubernetes     |-> <<"k", "u", "b", "e", "r", "n", "e", "t", "e", "s">>,
     deploy         |-> <<"d", "e", "p", "l", "o", "y">>,
     manifest       |-> <<"m", "a", "n", "i", "f", "e", "s", "t">>,
     manifests      |-> <<"m", "a", "n", "i", "f", "e", "s", "t", "s">>,
     apply          |-> <<"a", "p", "p", "l", "y">>,
     kubectl_apply  |-> <<"k", "u", "b", "e", "c", "t", "l", " ", "a", "p", "p", "l", "y">>,
     deploy_now     |-> <<"d", "e", "p", "l", "o", "y", " ", "n", "o", "w">>,
     review         |-> <<"r", "e", "v", "i", "e", "w">>,
     code_review    |-> <<"c", "o", "d", "e", " ", "r", "e", "v", "i", "e", "w">>,
     lint           |-> <<"l", "i", "n", "t">>,
     analyze_code   |-> <<"a", "n", "a", "l", "y", "z", "e", " ", "c", "o", "d", "e">>,
     validate       |-> <<"v", "a", "l", "i", "d", "a", "t", "e">>]

\* further words, numbers and file names that prompts and pull requests are made of
PromptWord ==
    [NodePort       |-> <<"N", "o", "d", "e", "P", "o", "r", "t">>,
     hello          |-> <<"h", "e", "l", "l", "o">>,
     n0             |-> <<"0">>,
     n3             |-> <<"3">>,
     n99999         |-> <<"9", "9", "9", "9", "9">>,
     n123456        |-> <<"1", "2", "3", "4", "5", "6">>,
     n8080          |-> <<"8", "0", "8", "0">>,
     install        |-> <<"i", "n", "s", "t", "a", "l", "l">>,
     now            |-> <<"n", "o", "w">>,
     main_py        |-> <<"m", "a", "i", "n", ".", "p", "y">>,
     ALL            |-> <<"A", "L", "L">>,
     Deploy         |-> <<"D", "e", "p", "l", "o", "y">>,
     a_py           |-> <<"a", ".", "p", "y">>,
     b_html         |-> <<"b", ".", "h", "t", "m", "l">>,
     readme_md      |-> <<"r", "e", "a", "d", "m", "e", ".", "m", "d">>]

\* the target of a review when the prompt names no file
DefaultReviewTarget == <<"h", "t", "m", "l", "/", "t", "a", "l", "k", "i", "t", "d", "o", "i", "t", ".", "h", "t", "m", "l">>
---------------------------------------------------------------------------
(* main.py: _extract_overrides *)

\* maximal digit counts of the number groups: \d+ is unbounded (bounded here
\* by the text), \d{2,5} takes two to five digits
MinPortDigits == 2
MaxPortDigits == 5

\* ReplicasAt with the \s* of the pattern left out
ReplicasAt_NoSpace(t, i) ==
    IF ~At(t, i, OverrideWord.replica) THEN <<>>
    ELSE LET a == i + Len(OverrideWord.replica)
             b == IF a <= Len(t) /\ t[a] = "s" THEN a + 1 ELSE a
             n == DigitRun(t, b, Len(t))
         IN  SubSeq(t, b, b + n - 1)

\* re: replicas?\s*(?:to\s*)?(\d+) matched at position i; the captured
\* digits, or <<>> when the pattern does not match at i
ReplicasAt(t, i) ==
    IF ~At(t, i, OverrideWord.replica) THEN <<>>
    ELSE LET a == i + Len(OverrideWord.replica)
             b == IF a <= Len(t) /\ t[a] = "s" THEN a + 1 ELSE a
             c == SkipSpace(t, b)
             d == IF At(t, c, OverrideWord.to) THEN SkipSpace(t, c + Len(OverrideWord.to)) ELSE c
             n == DigitRun(t, d, Len(t))
         IN  SubSeq(t, d, d + n - 1)

\* PortDigitsAt with \d{1,5} for \d{2,5}
PortDigitsAt_OneDigit(t, i) ==
    LET c == SkipSpace(t, i)
        n == DigitRun(t, c, MaxPortDigits)
    IN  IF n >= 1 THEN SubSeq(t, c, c + n - 1) ELSE <<>>

\* the digits captured by \s*(\d{2,5}) at position i, or <<>>
PortDigitsAt(t, i) ==
    LET c == SkipSpace(t, i)
        n == DigitRun(t, c, MaxPortDigits)
    IN  IF n >= MinPortDigits THEN SubSeq(t, c, c + n - 1) ELSE <<>>

\* the service-port pattern without its bare "port" alternative
ServicePortAt_NoBarePort(t, i) ==
    IF At(t, i, OverrideWord.expose) THEN PortDigitsAt(t, i + Len(OverrideWord.expose))
    ELSE IF At(t, i, OverrideWord.service)
              /\ At(t, SkipSpace(t, i + Len(OverrideWord.service)), OverrideWord.port)
         THEN PortDigitsAt(t, SkipSpace(t, i + Len(OverrideWord.service)) + Len(OverrideWord.port))
    ELSE <<>>

\* re: (?:expose|service\s*port|port)\s*(\d{2,5}) matched at position i
ServicePortAt(t, i) ==
    IF At(t, i, OverrideWord.expose) THEN PortDigitsAt(t, i + Len(OverrideWord.expose))
    ELSE IF At(t, i, OverrideWord.service)
              /\ At(t, SkipSpace(t, i + Len(OverrideWord.service)), OverrideWord.port)
         THEN PortDigitsAt(t, SkipSpace(t, i + Len(OverrideWord.service)) + Len(OverrideWord.port))
    ELSE IF At(t, i, OverrideWord.port) THEN PortDigitsAt(t, i + Len(OverrideWord.port))
    ELSE <<>>

\* re: (?:container\s*port|target\s*port)\s*(\d{2,5}) matched at position i
ContainerPortAt(t, i) ==
    IF At(t, i, OverrideWord.container)
          /\ At(t, SkipSpace(t, i + Len(OverrideWord.container)), OverrideWord.port)
    THEN PortDigitsAt(t, SkipSpace(t, i + Len(OverrideWord.container)) + Len(OverrideWord.port))
    ELSE IF At(t, i, OverrideWord.target)
              /\ At(t, SkipSpace(t, i + Len(OverrideWord.target)), OverrideWord.port)
         THEN PortDigitsAt(t, SkipSpace(t, i + Len(OverrideWord.target)) + Len(OverrideWord.port))
    ELSE <<>>

\* re.search: the group of the leftmost match, <<>> when there is none
SearchReplicas(t) ==
    LET hits == {i \in 1..Len(t) : ReplicasAt(t, i) # <<>>}
    IN  IF hits = {} THEN <<>>
        ELSE ReplicasAt(t, CHOOSE i \in hits : \A j \in hits : i <= j)

SearchServicePort(t) ==
    LET hits == {i \in 1..Len(t) : ServicePortAt(t, i) # <<>>}
    IN  IF hits = {} THEN <<>>
        ELSE ServicePortAt(t, CHOOSE i \in hits : \A j \in hits : i <= j)

SearchContainerPort(t) ==
    LET hits == {i \in 1..Len(t) : ContainerPortAt(t, i) # <<>>}
    IN  IF hits = {} THEN <<>>
        ELSE ContainerPortAt(t, CHOOSE i \in hits : \A j \in hits : i <= j)

\* the empty dict
EmptyMap == [k \in {} |-> 0]

\* the service-type branch of _extract_overrides
ServiceTypeOf(text) ==
    IF Contains(text, OverrideWord.loadbalancer) THEN "service_type" :> "LoadBalancer"
    ELSE IF Contains(text, OverrideWord.nodeport) THEN "service_type" :> "NodePort"
    ELSE IF Contains(text, OverrideWord.clusterip) THEN "service_type" :> "ClusterIP"
    ELSE EmptyMap

\* _extract_overrides(prompt): the override map, a function whose domain is
\* the set of keys put in the dict
ExtractOverrides(prompt) ==
    LET text == Lower(prompt)
        r == SearchReplicas(text)
        s == SearchServicePort(text)
        c == SearchContainerPort(text)
    IN  (IF r # <<>> THEN "replicas" :> ParseInt(r) ELSE EmptyMap)
        @@ (IF s # <<>> THEN "service_port" :> ParseInt(s) ELSE EmptyMap)
        @@ (IF c # <<>> THEN "container_port" :> ParseInt(c) ELSE EmptyMap)
        @@ ServiceTypeOf(text)

---------------------------------------------------------------------------
(* main.py: k8s_generate_and_optionally_apply, the config it builds *)

\* dict.get(key, default)
Get(m, key, default) == IF key \in DOMAIN m THEN m[key] ELSE default

DefaultReplicas == 1
DefaultPort == 80

\* KubernetesConfig(...) as main.py constructs it from the overrides
BuildK8sConfig(overrides) ==
    [app_name       |-> "myapp",
     image          |-> "myapp:latest",
     replicas       |-> Get(overrides, "replicas", DefaultReplicas),
     container_port |-> Get(overrides, "container_port", DefaultPort),
     service_port   |-> Get(overrides, "service_port",
                            Get(overrides, "container_port", DefaultPort)),
     service_type   |-> Get(overrides, "service_type", "ClusterIP"),
     namespace      |-> "default",
     manifests_dir  |-> "k8s"]

NoConfig == [app_name |-> "none"]

---------------------------------------------------------------------------
(* agents/kubernetes_agent.py: KubernetesAgent *)

\* os.path.join(manifests_dir, name)
PathJoin(dir, name) == <<dir, name>>

\* the f-string of generate_manifests for the Deployment, after lstrip():
\* the fixed text of the template and the values put into it, in order
DeploymentYaml(cfg) ==
    <<"apiVersion: apps/v1\nkind: Deployment\nmetadata:\n  name: ", cfg.app_name,
      "\n  labels:\n    app: ", cfg.app_name,
      "\nspec:\n  replicas: ", IntToStr(cfg.replicas),
      "\n  selector:\n    matchLabels:\n      app: ", cfg.app_name,
      "\n  template:\n    metadata:\n      labels:\n        app: ", cfg.app_name,
      "\n    spec:\n      containers:\n      - name: ", cfg.app_name,
      "\n        image: ", cfg.image,
      "\n        ports:\n        - containerPort: ", IntToStr(cfg.container_port),
      "\n">>

\* the f-string of generate_manifests for the Service, after lstrip()
ServiceYaml(cfg) ==
    <<"apiVersion: v1\nkind: Service\nmetadata:\n  name: ", cfg.app_name,
      "\n  labels:\n    app: ", cfg.app_name,
      "\nspec:\n  selector:\n    app: ", cfg.app_name,
      "\n  ports:\n  - port: ", IntToStr(cfg.service_port),
      "\n    targetPort: ", IntToStr(cfg.container_port),
      "\n  type: ", cfg.service_type,
      "\n">>

\* open(path, "a") for open(path, "w"): the text is added to the file
WriteFile_Append(files, path, text) ==
    IF path \in DOMAIN files
    THEN [files EXCEPT ![path] = @ \o text]
    ELSE (path :> text) @@ files

\* with open(path, "w") as f: f.write(text)
WriteFile(files, path, text) == (path :> text) @@ files

\* generate_manifests: the files after the call
GenerateFiles(files, cfg) ==
    WriteFile(
        WriteFile(files, PathJoin(cfg.manifests_dir, "deployment.yaml"),
                  DeploymentYaml(cfg)),
        PathJoin(cfg.manifests_dir, "service.yaml"), ServiceYaml(cfg))

\* generate_manifests: the dict it returns
GeneratePaths(cfg) ==
    [deployment |-> PathJoin(cfg.manifests_dir, "deployment.yaml"),
     service    |-> PathJoin(cfg.manifests_dir, "service.yaml")]

\* the namespace test of apply_manifests, without the comparison to "default"
NeedsNamespace_AnyName(namespace) == namespace # ""

\* if self.config.namespace and self.config.namespace != "default"
NeedsNamespace(namespace) == namespace # "" /\ namespace # "default"

\* what subprocess.run does with a kubectl command, by the state of the CLI:
\* "absent" raises FileNotFoundError, "unrunnable" raises another OSError,
\* otherwise the command runs and exits with a return code
KubectlStates == {"absent", "unrunnable", "ok", "failing"}

\* apply_manifests: the commands attempted and the way the call ends
ApplyManifests(cfg, cli) ==
    LET create == IF NeedsNamespace(cfg.namespace) THEN <<"kubectl create ns">> ELSE <<>>
        \* the first subprocess.run that raises ends the try block
        cmds == IF cli \in {"absent", "unrunnable"} /\ create # <<>>
                THEN create
                ELSE create \o <<"kubectl apply">>
    IN  [cmds   |-> cmds,
         raised |-> FALSE,
         status |-> CASE cli = "absent"     -> "kubectl is not installed or not available in PATH."
                      [] cli = "unrunnable" -> "Error applying manifests"
                      [] cli = "failing"    -> "kubectl apply failed"
                      [] OTHER              -> "kubectl apply succeeded"]

NoApply == [cmds |-> <<>>, raised |-> FALSE, status |-> "none"]

NoPaths == [deployment |-> <<>>, service |-> <<>>]

K8sConfigs ==
    [app_name       : {"myapp"},
     image          : {"myapp:latest"},
     replicas       : {1, 3},
     container_port : {80},
     service_port   : {80, 8080},
     service_type   : {"ClusterIP", "NodePort"},
     namespace      : {"default", "", "staging"},
     manifests_dir  : {"k8s", "out"}]

KIdle ==
    /\ kCfg = NoConfig
    /\ kFiles = EmptyMap
    /\ kDirs = {}
    /\ kOp = "off"
    /\ kGenCalls = 0
    /\ kRet = NoPaths
    /\ kEnv = "ok"
    /\ kCmds = <<>>
    /\ kStatus = NoApply

KInit ==
    /\ kCfg \in K8sConfigs
    /\ kFiles = EmptyMap
    /\ kDirs = {}
    /\ kOp = "new"
    /\ kGenCalls = 0
    /\ kRet = NoPaths
    /\ kEnv = "ok"
    /\ kCmds = <<>>
    /\ kStatus = NoApply

\* KubernetesAgent(config): a fresh agent; the files on disk stay
KNewAgent(cfg) ==
    /\ kOp # "new"
    /\ kCfg' = cfg
    /\ kOp' = "new"
    /\ kGenCalls' = 0
    /\ kRet' = NoPaths
    /\ kCmds' = <<>>
    /\ kStatus' = NoApply
    /\ UNCHANGED <<kFiles, kDirs, kEnv>>
    /\ UNCHANGED <<exVars, rvVars, rtVars, fcVars>>

\* generate_manifests()
KGenerate ==
    /\ kDirs' = kDirs \cup {kCfg.manifests_dir}
    /\ kFiles' = GenerateFiles(kFiles, kCfg)
    /\ kRet' = GeneratePaths(kCfg)
    /\ kOp' = "generate"
    /\ kGenCalls' = IF kGenCalls = 0 THEN 1 ELSE 2
    /\ UNCHANGED <<kCfg, kEnv, kCmds, kStatus>>
    /\ UNCHANGED <<exVars, rvVars, rtVars, fcVars>>

\* apply_manifests(), with the cluster CLI in state cli
KApply(cli) ==
    /\ LET r == ApplyManifests(kCfg, cli)
       IN  /\ kCmds' = r.cmds
           /\ kStatus' = r
    /\ kEnv' = cli
    /\ kOp' = "apply"
    /\ UNCHANGED <<kCfg, kFiles, kDirs, kGenCalls, kRet>>
    /\ UNCHANGED <<exVars, rvVars, rtVars, fcVars>>

KNext ==
    \/ \E cfg \in K8sConfigs : KNewAgent(cfg)
    \/ KGenerate
    \/ \E cli \in KubectlStates : KApply(cli)


---------------------------------------------------------------------------
(* utils/groq_client.py: GROQClient.send_code_review_request *)

\* JSON values as json.loads returns them, each with its Python type
JNone     == [t |-> "none", v |-> <<>>]
JNull     == [t |-> "null", v |-> <<>>]
JBool(b)  == [t |-> "bool", v |-> <<b>>]
JNum(n)   == [t |-> "num",  v |-> <<n>>]
JStr(x)   == [t |-> "str",  v |-> <<x>>]
JList(xs) == [t |-> "list", v |-> xs]
JObj(f)   == [t |-> "dict", v |-> f]

\* bool(x) of Python: None, False, 0, "", [] and {} are falsy
Truthy(x) ==
    CASE x.t \in {"none", "null"} -> FALSE
      [] x.t = "bool" -> x.v[1]
      [] x.t = "num"  -> x.v[1] # 0
      [] x.t = "str"  -> x.v[1] # ""
      [] x.t = "list" -> Len(x.v) > 0
      [] x.t = "dict" -> DOMAIN x.v # {}

\* What the endpoint answers: the request fails (raise_for_status or the
\* connection raises), or choices[0].message.content is a text that is a JSON
\* document ("json"), a ```-fenced block around a JSON document ("fenced"), a
\* fenced block around something json.loads rejects ("fenced_invalid"), or a
\* text that is neither ("text")
HttpError == [form |-> "http_error", value |-> JNone]

\* _extract_json(text): json.loads(text), else json.loads of the fenced
\* block, else None
ExtractJson(reply) ==
    CASE reply.form = "json"   -> reply.value
      [] reply.form = "fenced" -> reply.value
      [] OTHER                 -> JNone

SentinelObj ==
    JObj([issues          |-> JList(<<>>),
          suggestions     |-> JList(<<>>),
          overall_quality |-> JStr("Unknown")])

\* parsed = _extract_json(content) or {...}
ParsedOrSentinel(reply) ==
    IF Truthy(ExtractJson(reply)) THEN ExtractJson(reply) ELSE SentinelObj

\* one entry of issues: {description: string, severity: string}
ValidIssue(x) ==
    /\ x.t = "dict"
    /\ {"description", "severity"} \subseteq DOMAIN x.v
    /\ x.v["description"].t = "str"
    /\ x.v["severity"].t = "str"

\* CodeReviewFeedback.parse_obj(d) accepts the dict d: the three fields are
\* there and of the declared types
ValidFeedback(d) ==
    /\ {"issues", "suggestions", "overall_quality"} \subseteq DOMAIN d
    /\ d["issues"].t = "list"
    /\ \A k \in 1..Len(d["issues"].v) : ValidIssue(d["issues"].v[k])
    /\ d["suggestions"].t = "list"
    /\ \A k \in 1..Len(d["suggestions"].v) : d["suggestions"].v[k].t = "str"
    /\ d["overall_quality"].t = "str"

\* the CodeReviewFeedback built from an accepted dict
FeedbackOf(d) ==
    [issues          |-> d["issues"],
     suggestions     |-> d["suggestions"],
     overall_quality |-> d["overall_quality"]]

NoFeedback == [issues |-> JNone, suggestions |-> JNone, overall_quality |-> JNone]

\* the dict of the except branch: parsed.get(key, default) for the three keys
Sanitized(d) ==
    [issues          |-> Get(d, "issues", JList(<<>>)),
     suggestions     |-> Get(d, "suggestions", JList(<<>>)),
     overall_quality |-> Get(d, "overall_quality", JStr("Unknown"))]

\* send_code_review_request: the feedback returned, or the exception raised
SendCodeReviewRequest(reply) ==
    IF reply.form = "http_error"
    THEN [raised |-> "HTTPError", feedback |-> NoFeedback]
    ELSE LET parsed == ParsedOrSentinel(reply)
         IN  IF parsed.t # "dict"
             \* parse_obj rejects what is no dict, and the except branch then
             \* calls .get on it
             THEN [raised |-> "AttributeError", feedback |-> NoFeedback]
             ELSE IF ValidFeedback(parsed.v)
             THEN [raised |-> "none", feedback |-> FeedbackOf(parsed.v)]
             ELSE IF ValidFeedback(Sanitized(parsed.v))
             THEN [raised |-> "none", feedback |-> FeedbackOf(Sanitized(parsed.v))]
             ELSE [raised |-> "ValidationError", feedback |-> NoFeedback]

---------------------------------------------------------------------------
(* agents/code_review_agent.py: CodeReviewAgent *)

\* include_exts
IncludeExts ==
    {<<".", "p", "y">>, <<".", "j", "s">>, <<".", "t", "s">>,
     <<".", "t", "s", "x">>, <<".", "j", "s", "x">>,
     <<".", "h", "t", "m", "l">>, <<".", "c", "s", "s">>}

\* str.endswith(suffix)
EndsWith(w, suffix) == Len(suffix) <= Len(w) /\ At(w, Len(w) - Len(suffix) + 1, suffix)

\* file.filename.endswith(include_exts)
Included(filename) == \E e \in IncludeExts : EndsWith(filename, e)

\* the text fetched from raw_url, "" when the fetch raises or there is no url
FetchedContent(f) == IF f.raw = "ok" THEN "raw content" ELSE ""

\* the CodeReviewRequest built for a pull request file
RequestFor(f) == [file_name |-> f.filename, file_content |-> FetchedContent(f)]

\* a successful entry of the feedback list
SuccessEntry(tag, fb) ==
    [file            |-> tag,
     issues          |-> fb.issues,
     suggestions     |-> fb.suggestions,
     overall_quality |-> fb.overall_quality]

\* an error entry of the feedback list
ErrorEntry(tag, text) == [file |-> tag, error |-> text]

IsError(entry) == "error" \in DOMAIN entry

\* the loop body with the failed files left out of the list
ReviewOne_DropErrors(f) ==
    IF ~Included(f.filename) THEN <<>>
    ELSE LET r == SendCodeReviewRequest(f.reply)
         IN  IF r.raised = "none"
             THEN <<SuccessEntry(f.filename, r.feedback)>>
             ELSE <<>>

\* the body of the loop of perform_code_review: what it appends to feedback
ReviewOne(f) ==
    IF ~Included(f.filename) THEN <<>>
    ELSE LET r == SendCodeReviewRequest(f.reply)
         IN  IF r.raised = "none"
             THEN <<SuccessEntry(f.filename, r.feedback)>>
             ELSE <<ErrorEntry(f.filename, r.raised)>>

\* the loop of perform_code_review
RECURSIVE ReviewFiles(_)
ReviewFiles(files) ==
    IF Len(files) = 0 THEN <<>>
    ELSE ReviewOne(Head(files)) \o ReviewFiles(Tail(files))

\* the inference requests the loop sends, in order
RECURSIVE RequestsOf(_)
RequestsOf(files) ==
    IF Len(files) = 0 THEN <<>>
    ELSE (IF Included(Head(files).filename) THEN <<RequestFor(Head(files))>> ELSE <<>>)
         \o RequestsOf(Tail(files))

\* os.path.basename of a path given by its components
Basename(path) == <<path[Len(path)]>>

\* review_local_file reading the file only after the request was sent
ReviewLocalFile_RequestFirst(path, readable, reply) ==
    LET r == SendCodeReviewRequest(reply)
        req == <<[file_name |-> Basename(path), file_content |-> "local content"]>>
    IN  IF readable # "ok"
        THEN [result |-> ErrorEntry(path, "Failed to read file"), requests |-> req]
        ELSE IF r.raised = "none"
        THEN [result |-> SuccessEntry(path, r.feedback), requests |-> req]
        ELSE [result |-> ErrorEntry(path, r.raised), requests |-> req]

\* review_local_file(file_path): the dict returned and the requests sent
ReviewLocalFile(path, readable, reply) ==
    IF readable # "ok"
    THEN [result |-> ErrorEntry(path, "Failed to read file"), requests |-> <<>>]
    ELSE LET r == SendCodeReviewRequest(reply)
             req == <<[file_name |-> Basename(path), file_content |-> "local content"]>>
         IN  IF r.raised = "none"
             THEN [result |-> SuccessEntry(path, r.feedback), requests |-> req]
             ELSE [result |-> ErrorEntry(path, r.raised), requests |-> req]

\* the values a reply may carry
GoodIssue == JObj([description |-> JStr("unused import"), severity |-> JStr("low")])

GoodObj ==
    JObj([issues          |-> JList(<<GoodIssue>>),
          suggestions     |-> JList(<<JStr("remove it")>>),
          overall_quality |-> JStr("Good")])

JsonValues ==
    {JNull, JBool(FALSE), JBool(TRUE), JNum(0), JNum(42), JStr(""), JStr("looks fine"),
     JList(<<>>), JList(<<JNum(1)>>), JObj(EmptyMap), GoodObj,
     \* keys missing
     JObj([overall_quality |-> JStr("Good")]),
     JObj([issues |-> JList(<<GoodIssue>>)]),
     \* a key the model does not have
     JObj([note |-> JStr("n/a")]),
     \* fields of the wrong type
     JObj([issues |-> JStr("none"), suggestions |-> JList(<<>>),
           overall_quality |-> JStr("Good")]),
     JObj([issues |-> JList(<<JStr("not an object")>>)]),
     JObj([overall_quality |-> JList(<<JNum(7)>>)])}

Replies ==
    {HttpError,
     [form |-> "text", value |-> JNone],
     [form |-> "fenced_invalid", value |-> JNone]}
    \cup [form : {"json", "fenced"}, value : JsonValues]

\* the replies met inside a batch: a failure and a review
BatchReplies == {HttpError, [form |-> "json", value |-> GoodObj]}

PullRequestFiles ==
    [filename : {PromptWord.a_py, PromptWord.b_html, PromptWord.readme_md},
     raw      : {"ok", "fail"},
     reply    : BatchReplies]

LocalPaths == {<<"html", "talkitdoit.html">>, <<"main.py">>, <<"src", "gone.py">>}

RvIdle ==
    /\ rvClient = "unavailable"
    /\ rvOp = "off"
    /\ rvFiles = <<>>
    /\ rvPath = <<>>
    /\ rvReadable = "ok"
    /\ rvReply = HttpError
    /\ rvResult = <<>>
    /\ rvRaised = "none"
    /\ rvRequests = <<>>
    /\ rvGithub = "up"
    /\ rvFeedback = <<>>
    /\ rvFailAt = {}
    /\ rvPosts = <<>>

RvInit ==
    /\ rvClient \in {"ok", "unavailable"}
    /\ rvOp = "new"
    /\ rvFiles = <<>>
    /\ rvPath = <<>>
    /\ rvReadable = "ok"
    /\ rvReply = HttpError
    /\ rvResult = <<>>
    /\ rvRaised = "none"
    /\ rvRequests = <<>>
    /\ rvGithub = "up"
    /\ rvFeedback = <<>>
    /\ rvFailAt = {}
    /\ rvPosts = <<>>

\* perform_code_review() on a pull request holding files
PerformCodeReviewOn(files) ==
    /\ rvOp' = "perform"
    /\ rvFiles' = files
    /\ IF rvClient # "ok"
       \* fetch_pull_request_files raises before anything else happens
       THEN /\ rvRaised' = "RuntimeError"
            /\ rvResult' = <<>>
            /\ rvRequests' = <<>>
       ELSE /\ rvRaised' = "none"
            /\ rvResult' = ReviewFiles(files)
            /\ rvRequests' = RequestsOf(files)
    /\ rvPath' = <<>>
    /\ rvReadable' = "ok"
    /\ rvReply' = HttpError
    /\ UNCHANGED <<rvClient, rvPostVars>>
    /\ UNCHANGED <<exVars, kVars, rtVars, fcVars>>

\* one call per agent: main.py and the callers build a fresh agent each time
RvPerformCodeReview ==
    /\ rvOp = "new"
    /\ \E files \in SeqsUpTo(PullRequestFiles, MaxFiles) : PerformCodeReviewOn(files)

\* review_local_file(path), open() doing readable and the endpoint answering reply
RvReviewLocal ==
    /\ rvOp = "new"
    /\ \E path \in LocalPaths, readable \in {"ok", "missing", "denied"}, reply \in Replies :
         /\ rvOp' = "local"
         /\ rvPath' = path
         /\ rvReadable' = readable
         /\ rvReply' = reply
         /\ LET r == ReviewLocalFile(path, readable, reply)
            IN  /\ rvResult' = r.result
                /\ rvRequests' = r.requests
    /\ rvRaised' = "none"
    /\ rvFiles' = <<>>
    /\ UNCHANGED <<rvClient, rvPostVars>>
    /\ UNCHANGED <<exVars, kVars, rtVars, fcVars>>

\* groq_client.send_code_review_request(...) called on its own
RvSendRequest ==
    /\ rvOp = "new"
    /\ \E reply \in Replies :
         /\ rvReply' = reply
         /\ LET r == SendCodeReviewRequest(reply)
            IN  /\ rvResult' = r.feedback
                /\ rvRaised' = r.raised
    /\ rvOp' = "send"
    /\ rvRequests' = <<[file_name |-> <<"x.py">>, file_content |-> "local content"]>>
    /\ rvFiles' = <<>>
    /\ rvPath' = <<>>
    /\ rvReadable' = "ok"
    /\ UNCHANGED <<rvClient, rvPostVars>>
    /\ UNCHANGED <<exVars, kVars, rtVars, fcVars>>

\* fetch_pull_request_files(): the files of the pull request, or the
\* exception raised; the RuntimeError of lines 70-71 comes before any call of
\* the GitHub API, whose own failures are GithubExceptions
FetchPullRequestFiles(client, github, files) ==
    IF client # "ok" THEN [raised |-> "RuntimeError", files |-> <<>>]
    ELSE IF github = "down" THEN [raised |-> "GithubException", files |-> <<>>]
    ELSE [raised |-> "none", files |-> files]

\* perform_code_review(): the feedback list returned and the requests sent
PerformCodeReview(client, github, files) ==
    LET f == FetchPullRequestFiles(client, github, files)
    IN  IF f.raised # "none"
        THEN [raised |-> f.raised, result |-> <<>>, requests |-> <<>>]
        ELSE [raised |-> "none", result |-> ReviewFiles(f.files),
              requests |-> RequestsOf(f.files)]

\* the comment post_feedback_to_github formats for one entry
CommentFor(entry) ==
    IF IsError(entry)
    THEN [kind |-> "error", text |-> entry.error]
    ELSE [kind |-> "review", file |-> entry.file, overall |-> entry.overall_quality,
          issues |-> entry.issues, suggestions |-> entry.suggestions]

\* the loop of post_feedback_to_github from entry i on: the comments
\* create_issue_comment is called with, and the exception that ends the loop;
\* nothing in the loop catches what create_issue_comment raises
RECURSIVE PostLoop(_, _, _)
PostLoop(feedback, i, failAt) ==
    IF i > Len(feedback) THEN [posts |-> <<>>, raised |-> "none"]
    ELSE IF i \in failAt
    THEN [posts |-> <<CommentFor(feedback[i])>>, raised |-> "GithubException"]
    ELSE LET rest == PostLoop(feedback, i + 1, failAt)
         IN  [posts |-> <<CommentFor(feedback[i])>> \o rest.posts, raised |-> rest.raised]

\* post_feedback_to_github with the test of the client left out
PostFeedbackToGithub_NoClientTest(client, github, feedback, failAt) ==
    IF client # "ok" THEN [posts |-> <<>>, raised |-> "AttributeError"]
    ELSE IF github = "down" THEN [posts |-> <<>>, raised |-> "GithubException"]
    ELSE PostLoop(feedback, 1, failAt)

\* post_feedback_to_github(feedback)
PostFeedbackToGithub(client, github, feedback, failAt) ==
    IF client # "ok" THEN [posts |-> <<>>, raised |-> "RuntimeError"]
    ELSE IF github = "down" THEN [posts |-> <<>>, raised |-> "GithubException"]
    ELSE PostLoop(feedback, 1, failAt)

\* run(): perform_code_review, then post_feedback_to_github, then the
\* feedback is returned
RunAgent(client, github, files, failAt) ==
    LET p == PerformCodeReview(client, github, files)
        q == PostFeedbackToGithub(client, github, p.result, failAt)
    IN  IF p.raised # "none"
        THEN [raised |-> p.raised, result |-> <<>>, requests |-> <<>>,
              feedback |-> <<>>, posts |-> <<>>]
        ELSE [raised |-> q.raised,
              result |-> IF q.raised = "none" THEN p.result ELSE <<>>,
              requests |-> p.requests, feedback |-> p.result, posts |-> q.posts]

\* the feedback lists given to post_feedback_to_github on its own
FeedbackEntries ==
    {SuccessEntry(PromptWord.a_py, FeedbackOf(GoodObj.v)),
     SuccessEntry(PromptWord.b_html, FeedbackOf(GoodObj.v)),
     ErrorEntry(PromptWord.b_html, "HTTPError")}

\* the pull requests run() is called on
RunPullRequestFiles ==
    {[filename |-> PromptWord.a_py, raw |-> "ok",
      reply |-> [form |-> "json", value |-> GoodObj]],
     [filename |-> PromptWord.b_html, raw |-> "ok", reply |-> HttpError],
     [filename |-> PromptWord.readme_md, raw |-> "ok",
      reply |-> [form |-> "json", value |-> GoodObj]]}

\* fetch_pull_request_files() called on its own
RvFetchFiles ==
    /\ rvOp = "new"
    /\ \E github \in {"up", "down"}, files \in SeqsUpTo(RunPullRequestFiles, MaxFiles) :
         /\ rvGithub' = github
         /\ rvFiles' = files
         /\ LET f == FetchPullRequestFiles(rvClient, github, files)
            IN  /\ rvResult' = f.files
                /\ rvRaised' = f.raised
    /\ rvOp' = "fetch"
    /\ rvRequests' = <<>>
    /\ rvPath' = <<>>
    /\ rvReadable' = "ok"
    /\ rvReply' = HttpError
    /\ UNCHANGED <<rvClient, rvFeedback, rvFailAt, rvPosts>>
    /\ UNCHANGED <<exVars, kVars, rtVars, fcVars>>

\* post_feedback_to_github(feedback) called on its own, create_issue_comment
\* raising for the entries of failAt
RvPostFeedback ==
    /\ rvOp = "new"
    /\ \E github \in {"up", "down"}, feedback \in SeqsUpTo(FeedbackEntries, MaxFiles) :
         \E failAt \in SUBSET (1..Len(feedback)) :
            /\ rvGithub' = github
            /\ rvFeedback' = feedback
            /\ rvFailAt' = failAt
            /\ LET q == PostFeedbackToGithub(rvClient, github, feedback, failAt)
               IN  /\ rvPosts' = q.posts
                   /\ rvRaised' = q.raised
    /\ rvOp' = "post"
    /\ rvResult' = <<>>
    /\ rvRequests' = <<>>
    /\ rvFiles' = <<>>
    /\ rvPath' = <<>>
    /\ rvReadable' = "ok"
    /\ rvReply' = HttpError
    /\ UNCHANGED rvClient
    /\ UNCHANGED <<exVars, kVars, rtVars, fcVars>>

\* run() on a pull request holding files
RvRun ==
    /\ rvOp = "new"
    /\ \E github \in {"up", "down"}, files \in SeqsUpTo(RunPullRequestFiles, MaxFiles) :
         \E failAt \in SUBSET (1..Len(files)) :
            /\ rvGithub' = github
            /\ rvFiles' = files
            /\ rvFailAt' = failAt
            /\ LET r == RunAgent(rvClient, github, files, failAt)
               IN  /\ rvResult' = r.result
                   /\ rvRaised' = r.raised
                   /\ rvRequests' = r.requests
                   /\ rvFeedback' = r.feedback
                   /\ rvPosts' = r.posts
    /\ rvOp' = "run"
    /\ rvPath' = <<>>
    /\ rvReadable' = "ok"
    /\ rvReply' = HttpError
    /\ UNCHANGED rvClient
    /\ UNCHANGED <<exVars, kVars, rtVars, fcVars>>

RvNext ==
    \/ RvPerformCodeReview
    \/ RvReviewLocal
    \/ RvSendRequest
    \/ RvFetchFiles
    \/ RvPostFeedback
    \/ RvRun

---------------------------------------------------------------------------
(* main.py: handle_prompt and the steps it dispatches to *)

\* the keywords of the routing ladder, and further words prompts are made of
\* str.strip(): the text without its leading and trailing whitespace
RECURSIVE StripLeft(_)
StripLeft(t) == IF Len(t) > 0 /\ IsSpace(t[1]) THEN StripLeft(Tail(t)) ELSE t

RECURSIVE StripRight(_)
StripRight(t) ==
    IF Len(t) > 0 /\ IsSpace(t[Len(t)]) THEN StripRight(SubSeq(t, 1, Len(t) - 1)) ELSE t

Strip(t) == StripRight(StripLeft(t))

\* handle_prompt's normalization with the strip left out
Normalize_NoStrip(prompt) == Lower(prompt)

\* normalized = (prompt or "").strip().lower()
Normalize(prompt) == Lower(Strip(prompt))

\* str.split(): the maximal runs of non-whitespace characters, in order
RECURSIVE SplitFrom(_, _, _)
SplitFrom(t, i, word) ==
    IF i > Len(t) THEN (IF Len(word) > 0 THEN <<word>> ELSE <<>>)
    ELSE IF IsSpace(t[i])
    THEN (IF Len(word) > 0 THEN <<word>> ELSE <<>>) \o SplitFrom(t, i + 1, <<>>)
    ELSE SplitFrom(t, i + 1, Append(word, t[i]))

Split(t) == SplitFrom(t, 1, <<>>)

\* the rules of the ladder, top to bottom
Rules ==
    <<"all", "pipeline", "dockerfile", "build", "predict", "kubernetes", "review", "validate">>

\* the keywords each if of the ladder tests
Keywords(rule) ==
    CASE rule = "all"        -> {RouteWord.all, RouteWord.everything, RouteWord.run_all}
      [] rule = "pipeline"   -> {RouteWord.pipeline, RouteWord.github_actions, RouteWord.workflow}
      [] rule = "dockerfile" -> {RouteWord.dockerfile}
      [] rule = "build"      -> {RouteWord.build}
      [] rule = "predict"    -> {RouteWord.predict, RouteWord.prediction}
      [] rule = "kubernetes" -> {RouteWord.k8s, RouteWord.kubernetes, RouteWord.deploy, RouteWord.manifest, RouteWord.manifests}
      [] rule = "review"     -> {RouteWord.review, RouteWord.code_review, RouteWord.lint, RouteWord.analyze_code}
      [] rule = "validate"   -> {RouteWord.validate}

\* the condition of the if of a rule
Matches(rule, normalized) == ContainsAny(normalized, Keywords(rule))

\* the ladder read bottom to top: the last rule that matches
Route_LastMatch(normalized) ==
    LET hits == {i \in 1..Len(Rules) : Matches(Rules[i], normalized)}
    IN  IF Len(normalized) = 0 THEN "help"
        ELSE IF hits = {} THEN "unrecognized"
        ELSE Rules[CHOOSE i \in hits : \A j \in hits : j <= i]

\* the branch of handle_prompt that runs: every if of the ladder ends in a
\* return, so it is the first rule whose condition holds
Route(normalized) ==
    LET hits == {i \in 1..Len(Rules) : Matches(Rules[i], normalized)}
    IN  IF Len(normalized) = 0 THEN "help"
        ELSE IF hits = {} THEN "unrecognized"
        ELSE Rules[CHOOSE i \in hits : \A j \in hits : i <= j]

\* the apply test with "deploy now" left out of the list
ApplyIntent_NoDeployNow(normalized) ==
    ContainsAny(normalized, {RouteWord.apply, RouteWord.kubectl_apply})

\* apply = any(k in normalized for k in ["apply", "kubectl apply", "deploy now"])
ApplyIntent(normalized) == ContainsAny(normalized, {RouteWord.apply, RouteWord.kubectl_apply, RouteWord.deploy_now})

\* the review branch: the first token ending in an allow-listed extension,
\* else the default target
ReviewTarget(normalized) ==
    LET tokens == Split(normalized)
        hits == {i \in 1..Len(tokens) : Included(tokens[i])}
    IN  IF hits = {} THEN DefaultReviewTarget
        ELSE tokens[CHOOSE i \in hits : \A j \in hits : i <= j]

\* What a run of handle_prompt meets outside the program: whether
\* GROQ_API_ENDPOINT and GROQ_API_KEY are set, what subprocess.run does with
\* the docker and kubectl commands, whether the inference API answers.
Envs ==
    [creds   : BOOLEAN,
     docker  : {"absent", "ok", "failing", "unrunnable"},
     kubectl : {"absent", "ok", "failing"},
     api     : {"up", "down"}]

NoEnv == [creds |-> TRUE, docker |-> "ok", kubectl |-> "ok", api |-> "up"]

DockerfilePath == <<".", "Dockerfile">>
WorkflowPath == <<".github/workflows", "CI3.yml">>

\* a function of main.py that was called, with its arguments and, for
\* build_and_check_status, the status it returned
StepRec(name) ==
    [name |-> name, status |-> "", apply |-> FALSE, overrides |-> EmptyMap, path |-> <<>>]

\* a run of handle_prompt so far: the functions of main.py called, the agent
\* operations and commands invoked, the exception in flight, the files on
\* disk, the status the build step returned, the messages of handle_prompt
StartRun(files) ==
    [steps |-> <<>>, ops |-> <<>>, raised |-> "none", files |-> files,
     status |-> "", msgs |-> <<>>]

\* create_github_actions_pipeline(): GitHubActionsConfig takes the two
\* environment values as str fields and rejects None
CreatePipeline(run, env) ==
    IF run.raised # "none" THEN run
    ELSE LET r == [run EXCEPT !.steps = Append(@, StepRec("create_github_actions_pipeline"))]
         IN  IF ~env.creds THEN [r EXCEPT !.raised = "ValidationError"]
             ELSE [r EXCEPT !.ops = Append(@, "generate_pipeline"),
                            !.files = WriteFile(@, WorkflowPath, <<"workflow">>)]

\* create_dockerfile(): DockerfileConfig takes the two environment values as
\* str fields and rejects None
CreateDockerfile(run, env) ==
    IF run.raised # "none" THEN run
    ELSE LET r == [run EXCEPT !.steps = Append(@, StepRec("create_dockerfile"))]
         IN  IF ~env.creds THEN [r EXCEPT !.raised = "ValidationError"]
             ELSE [r EXCEPT !.ops = Append(@, "generate_dockerfile"),
                            !.files = WriteFile(@, DockerfilePath, <<"dockerfile">>)]

\* BuildStatusAgent.check_build_status(): the status of the image
CheckBuildStatus(run, env) ==
    IF env.docker = "ok" /\ DockerfilePath \in DOMAIN run.files
    THEN "Build successful"
    ELSE "Build failed"

\* build_and_check_status(): only FileNotFoundError is caught around the build
BuildAndCheckStatus(run, env) ==
    IF run.raised # "none" THEN run
    ELSE LET r == [run EXCEPT !.ops = Append(@, "docker build")]
             done(status) ==
                 [r EXCEPT !.status = status,
                           !.steps = Append(@, [StepRec("build_and_check_status")
                                                   EXCEPT !.status = status])]
         IN  CASE env.docker = "absent" ->
                    done("Docker is not installed or not available in PATH.")
               [] env.docker = "unrunnable" ->
                    [r EXCEPT !.raised = "PermissionError",
                              !.steps = Append(@, StepRec("build_and_check_status"))]
               [] OTHER ->
                    [done(CheckBuildStatus(r, env))
                        EXCEPT !.ops = Append(@, "check_build_status")]

\* predict_build(build_status_message)
PredictBuild(run, env, status) ==
    IF run.raised # "none" THEN run
    ELSE [run EXCEPT !.steps = Append(@, [StepRec("predict_build") EXCEPT !.status = status]),
                     !.ops = Append(@, "predict_build_failure")]

\* k8s_generate_and_optionally_apply(apply, overrides)
K8sGenerateAndOptionallyApply(run, env, apply, overrides) ==
    IF run.raised # "none" THEN run
    ELSE LET cfg == BuildK8sConfig(overrides)
             r == [run EXCEPT
                      !.steps = Append(@, [StepRec("k8s_generate_and_optionally_apply")
                                              EXCEPT !.apply = apply, !.overrides = overrides]),
                      !.ops = Append(@, "generate_manifests"),
                      !.files = GenerateFiles(@, cfg)]
         IN  IF apply /\ ~ApplyManifests(cfg, env.kubectl).raised
             THEN [r EXCEPT !.ops = Append(@, "apply_manifests")]
             ELSE r

\* review_local(file_path): CodeReviewConfig gets "" for the values not set,
\* and review_local_file returns a dict whatever happens
ReviewLocal(run, env, path) ==
    IF run.raised # "none" THEN run
    ELSE [run EXCEPT !.steps = Append(@, [StepRec("review_local") EXCEPT !.path = path]),
                     !.ops = Append(@, "review_local_file")]

\* the branch of rule 1
RunAll(prompt, env, files) ==
    LET a == CreatePipeline(StartRun(files), env)
        b == CreateDockerfile(a, env)
        c == BuildAndCheckStatus(b, env)
        d == PredictBuild(c, env, c.status)
        e == K8sGenerateAndOptionallyApply(d, env, FALSE, ExtractOverrides(prompt))
    IN  IF e.raised = "none" THEN [e EXCEPT !.msgs = <<"completed">>] ELSE e

\* the branch of rule 5 with the try around the build step left out
RunPredict_NoTry(env, files) ==
    LET b == BuildAndCheckStatus(StartRun(files), env)
    IN  PredictBuild(b, env, b.status)

\* the branch of rule 5: status = "Unknown"; try: status = build_and_check_status()
\* except Exception: pass; predict_build(status)
RunPredict(env, files) ==
    LET b == BuildAndCheckStatus(StartRun(files), env)
        status == IF b.raised = "none" THEN b.status ELSE "Unknown"
    IN  PredictBuild([b EXCEPT !.raised = "none"], env, status)

\* the branch of rule 6
RunKubernetes(prompt, env, files) ==
    K8sGenerateAndOptionallyApply(StartRun(files), env,
                                  ApplyIntent(Normalize(prompt)), ExtractOverrides(prompt))

\* the branch of rule 8: the docker build is run outside any try
RunValidate(env, files) ==
    LET g == K8sGenerateAndOptionallyApply(StartRun(files), env, FALSE, EmptyMap)
        r == [g EXCEPT !.raised = "none"]
    IN  IF DockerfilePath \notin DOMAIN r.files THEN r
        ELSE LET b == [r EXCEPT !.ops = Append(@, "docker build --no-cache")]
             IN  CASE env.docker = "absent"     -> [b EXCEPT !.raised = "FileNotFoundError"]
                   [] env.docker = "unrunnable" -> [b EXCEPT !.raised = "PermissionError"]
                   [] OTHER                     -> b

\* the body of handle_prompt below the ladder's tests, by the branch taken
RunBranch(branch, prompt, env, files) ==
    CASE branch = "help"         -> [StartRun(files) EXCEPT !.msgs = <<"No task provided">>]
      [] branch = "all"          -> RunAll(prompt, env, files)
      [] branch = "pipeline"     -> CreatePipeline(StartRun(files), env)
      [] branch = "dockerfile"   -> CreateDockerfile(StartRun(files), env)
      [] branch = "build"        -> BuildAndCheckStatus(StartRun(files), env)
      [] branch = "predict"      -> RunPredict(env, files)
      [] branch = "kubernetes"   -> RunKubernetes(prompt, env, files)
      [] branch = "review"       ->
            ReviewLocal(StartRun(files), env, ReviewTarget(Normalize(prompt)))
      [] branch = "validate"     -> RunValidate(env, files)
      [] branch = "unrecognized" -> [StartRun(files) EXCEPT !.msgs = <<"Unrecognized task">>]

\* the words prompts are built from, and prompts given whole: padded, in
\* upper case, with the keywords of two words, with overrides
RouterVocab ==
    {RouteWord.all, PromptWord.install, RouteWord.pipeline, RouteWord.dockerfile, RouteWord.build, RouteWord.predict, RouteWord.deploy, RouteWord.validate}

MorePrompts ==
    {<<" ", " ">>,
     <<" ">> \o PromptWord.ALL \o <<" ">>,
     RouteWord.everything, RouteWord.run_all, RouteWord.github_actions, RouteWord.workflow, RouteWord.prediction,
     RouteWord.k8s, RouteWord.kubernetes, RouteWord.manifests, PromptWord.Deploy, RouteWord.lint, RouteWord.review, PromptWord.now,
     RouteWord.code_review \o <<" ">> \o PromptWord.main_py,
     RouteWord.analyze_code,
     RouteWord.deploy_now,
     RouteWord.kubectl_apply \o <<" ">> \o RouteWord.manifests,
     RouteWord.deploy \o <<" ">> \o RouteWord.apply \o <<" ">> \o Join(<<OverrideWord.replicas, PromptWord.n3, OverrideWord.port, PromptWord.n8080, OverrideWord.nodeport>>),
     RouteWord.all \o <<" ">> \o RouteWord.apply \o <<" ">> \o Join(<<OverrideWord.replicas, PromptWord.n3>>),
     RouteWord.validate \o <<" ">> \o RouteWord.review \o <<" ">> \o PromptWord.main_py,
     \* overrides out of range
     Join(<<RouteWord.deploy, OverrideWord.replicas, PromptWord.n0>>),
     Join(<<RouteWord.k8s, OverrideWord.port, PromptWord.n99999>>),
     Join(<<RouteWord.kubernetes, RouteWord.apply, OverrideWord.container, OverrideWord.port, PromptWord.n8080>>)}

RouterPrompts == {Join(ws) : ws \in SeqsUpTo(RouterVocab, MaxWords)} \cup MorePrompts

\* the files on disk before the call: none, or a Dockerfile left by an earlier run
FilesBefore == {EmptyMap, DockerfilePath :> <<"dockerfile">>}

RtIdle ==
    /\ rtPrompt = <<>>
    /\ rtPc = "off"
    /\ rtBranch = "none"
    /\ rtEnv = NoEnv
    /\ rtBefore = EmptyMap
    /\ rtRun = StartRun(EmptyMap)

RtInit ==
    /\ rtPrompt \in RouterPrompts
    /\ rtPc = "start"
    /\ rtBranch = "none"
    /\ rtEnv = NoEnv
    /\ rtBefore = EmptyMap
    /\ rtRun = StartRun(EmptyMap)

\* handle_prompt, down the ladder to the branch whose test holds
RtClassify ==
    /\ rtPc = "start"
    /\ rtBranch' = Route(Normalize(rtPrompt))
    /\ rtPc' = "routed"
    /\ UNCHANGED <<rtPrompt, rtEnv, rtBefore, rtRun>>
    /\ UNCHANGED <<exVars, kVars, rvVars, fcVars>>

\* handle_prompt, the branch taken, from its first statement to its return
\* or to the exception that leaves it
Dispatch(branch) ==
    /\ \E env \in Envs, files \in FilesBefore :
         /\ rtEnv' = env
         /\ rtBefore' = files
         /\ rtRun' = RunBranch(branch, rtPrompt, env, files)
    /\ rtPc' = "done"
    /\ UNCHANGED <<rtPrompt, rtBranch>>
    /\ UNCHANGED <<exVars, kVars, rvVars, fcVars>>

RtHelp ==
    /\ rtPc = "routed" /\ rtBranch = "help"
    /\ Dispatch("help")

RtAll ==
    /\ rtPc = "routed" /\ rtBranch = "all"
    /\ Dispatch("all")

RtPipeline ==
    /\ rtPc = "routed" /\ rtBranch = "pipeline"
    /\ Dispatch("pipeline")

RtDockerfile ==
    /\ rtPc = "routed" /\ rtBranch = "dockerfile"
    /\ Dispatch("dockerfile")

RtBuild ==
    /\ rtPc = "routed" /\ rtBranch = "build"
    /\ Dispatch("build")

RtPredict ==
    /\ rtPc = "routed" /\ rtBranch = "predict"
    /\ Dispatch("predict")

RtKubernetes ==
    /\ rtPc = "routed" /\ rtBranch = "kubernetes"
    /\ Dispatch("kubernetes")

RtReview ==
    /\ rtPc = "routed" /\ rtBranch = "review"
    /\ Dispatch("review")

RtValidate ==
    /\ rtPc = "routed" /\ rtBranch = "validate"
    /\ Dispatch("validate")

RtUnrecognized ==
    /\ rtPc = "routed" /\ rtBranch = "unrecognized"
    /\ Dispatch("unrecognized")

RtNext ==
    \/ RtClassify
    \/ RtHelp
    \/ RtAll
    \/ RtPipeline
    \/ RtDockerfile
    \/ RtBuild
    \/ RtPredict
    \/ RtKubernetes
    \/ RtReview
    \/ RtValidate
    \/ RtUnrecognized

---------------------------------------------------------------------------
(* agents/dockerfile_agent.py, agents/github_actions_agent.py: fetch_config *)

\* x or default
OrElse(x, default) == IF Truthy(x) THEN x ELSE default

\* a key the remote result does not hold
Absent == [t |-> "absent", v |-> <<>>]

\* What groq_client.query does: it raises, it returns None, it returns a
\* value that is not a dict, or it returns a dict. GROQClient.query as it
\* stands returns None; the other outcomes are those of a client that
\* queries a remote source, which fetch_config is written for.
QueryRaises == [form |-> "raises", value |-> EmptyMap]
QueryNone == [form |-> "none", value |-> EmptyMap]
QueryList == [form |-> "list", value |-> EmptyMap]

\* the dicts whose keys and values are drawn from choice, a key chosen
\* Absent being left out
MappingsOver(choice) ==
    LET all == UNION {choice[k] : k \in DOMAIN choice}
        picks == {g \in [DOMAIN choice -> all] : \A k \in DOMAIN choice : g[k] \in choice[k]}
    IN  {[form |-> "mapping",
          value |-> [k \in {j \in DOMAIN g : g[j] # Absent} |-> g[k]]] : g \in picks}

\* {k: v for k, v in result.items() if v not in (None, "")}, {} when the
\* result is not a dict
RemoteUpdate(result) ==
    IF result.form # "mapping" THEN EmptyMap
    ELSE LET m == result.value
         IN  [k \in {j \in DOMAIN m : m[j] \notin {JNull, JStr("")}} |-> m[k]]

\* DockerfileAgent.fetch_config: base, before the remote result is merged in
DockerBase(cfg) ==
    [baseImage       |-> OrElse(cfg.base_image, JStr("nginx:alpine")),
     exposePort      |-> OrElse(cfg.expose_port, JNum(80)),
     copySource      |-> OrElse(cfg.copy_source, JStr("./html")),
     workDir         |-> OrElse(cfg.work_dir, JStr("/usr/share/nginx/html")),
     groqApiEndpoint |-> cfg.groq_api_endpoint,
     groqApiKey      |-> cfg.groq_api_key]

\* DockerfileAgent.fetch_config(): self.config after the call and the
\* exception that escaped it; DockerfileConfig takes a str for every field
\* but expose_port, which is int(...) of the value
DockerFetchConfig(cfg, result) ==
    LET base == RemoteUpdate(result) @@ DockerBase(cfg)
        new == [base_image        |-> base["baseImage"],
                expose_port       |-> base["exposePort"],
                copy_source       |-> base["copySource"],
                work_dir          |-> base["workDir"],
                groq_api_endpoint |-> base["groqApiEndpoint"],
                groq_api_key      |-> base["groqApiKey"]]
    IN  IF new.expose_port.t # "num"
        \* int() of anything but a number; the results drawn hold no such exposePort
        THEN [cfg |-> cfg, raised |-> "TypeError"]
        ELSE IF \E f \in DOMAIN new \ {"expose_port"} : new[f].t # "str"
        THEN [cfg |-> cfg, raised |-> "ValidationError"]
        ELSE [cfg |-> new, raised |-> "none"]

\* GitHubActionsAgent.fetch_config(): self.config after the call and the
\* exception that escaped it
GhaFetchConfig(cfg, result) ==
    LET wf0 == OrElse(cfg.workflow_name, JStr("CI Pipeline"))
        py0 == OrElse(cfg.python_version, JStr("3.11"))
        rt0 == IF cfg.run_tests.t \in {"none", "null"} THEN JBool(TRUE) ELSE cfg.run_tests
        isDict == result.form = "mapping"
        m == result.value
        new == [workflow_name     |-> IF isDict THEN OrElse(Get(m, "workflowName", wf0), wf0)
                                      ELSE wf0,
                python_version    |-> IF isDict THEN OrElse(Get(m, "pythonVersion", py0), py0)
                                      ELSE py0,
                run_tests         |-> IF isDict THEN JBool(Truthy(Get(m, "runTests", rt0)))
                                      ELSE rt0,
                groq_api_endpoint |-> cfg.groq_api_endpoint,
                groq_api_key      |-> cfg.groq_api_key]
    IN  IF new.workflow_name.t # "str" \/ new.python_version.t # "str"
        THEN [cfg |-> cfg, raised |-> "ValidationError"]
        ELSE [cfg |-> new, raised |-> "none"]

\* the configs an agent is constructed with: DockerfileConfig and
\* GitHubActionsConfig take any str, the empty one included, and any int
DockerfileConfigs ==
    [base_image        : {JStr("nginx:alpine"), JStr("")},
     expose_port       : {JNum(80), JNum(0)},
     copy_source       : {JStr("./html")},
     work_dir          : {JStr("/usr/share/nginx/html")},
     groq_api_endpoint : {JStr("https://api.groq.com/v1")},
     groq_api_key      : {JStr("key")}]

GitHubActionsConfigs ==
    [workflow_name     : {JStr("CI Pipeline"), JStr("Nightly"), JStr("")},
     python_version    : {JStr("3.13.0")},
     run_tests         : {JBool(TRUE), JBool(FALSE)},
     groq_api_endpoint : {JStr("https://api.groq.com/v1")},
     groq_api_key      : {JStr("key")}]

\* what the query of each agent may come back with
DockerQueryResults ==
    {QueryRaises, QueryNone, QueryList}
    \cup MappingsOver([baseImage  |-> {Absent, JNull, JStr(""), JStr("python:3.13-slim")},
                       exposePort |-> {Absent, JNull, JNum(8080)},
                       maintainer |-> {Absent, JStr("ops")}])

GhaQueryResults ==
    {QueryRaises, QueryNone, QueryList}
    \cup MappingsOver([workflowName |-> {Absent, JNull, JStr(""), JStr("Release")},
                       runTests     |-> {Absent, JNull, JBool(TRUE), JBool(FALSE)},
                       maintainer   |-> {Absent, JStr("ops")}])

FcIdle ==
    /\ fcAgent = "none"
    /\ fcBefore = EmptyMap
    /\ fcResult = QueryNone
    /\ fcCfg = EmptyMap
    /\ fcRaised = "none"
    /\ fcPc = "off"

FcInit ==
    /\ fcAgent \in {"dockerfile", "github_actions"}
    /\ fcBefore \in (IF fcAgent = "dockerfile" THEN DockerfileConfigs ELSE GitHubActionsConfigs)
    /\ fcResult \in (IF fcAgent = "dockerfile" THEN DockerQueryResults ELSE GhaQueryResults)
    /\ fcCfg = fcBefore
    /\ fcRaised = "none"
    /\ fcPc = "new"

FcDockerfileFetch ==
    /\ fcPc = "new"
    /\ fcAgent = "dockerfile"
    /\ LET r == DockerFetchConfig(fcCfg, fcResult)
       IN  /\ fcCfg' = r.cfg
           /\ fcRaised' = r.raised
    /\ fcPc' = "fetched"
    /\ UNCHANGED <<fcAgent, fcBefore, fcResult>>
    /\ UNCHANGED <<exVars, kVars, rvVars, rtVars>>

FcGithubActionsFetch ==
    /\ fcPc = "new"
    /\ fcAgent = "github_actions"
    /\ LET r == GhaFetchConfig(fcCfg, fcResult)
       IN  /\ fcCfg' = r.cfg
           /\ fcRaised' = r.raised
    /\ fcPc' = "fetched"
    /\ UNCHANGED <<fcAgent, fcBefore, fcResult>>
    /\ UNCHANGED <<exVars, kVars, rvVars, rtVars>>

FcNext == FcDockerfileFetch \/ FcGithubActionsFetch

---------------------------------------------------------------------------
(* The extractor on its own: a prompt is drawn, extracted from twice, and   *)
(* the Kubernetes configuration is built from the result.                  *)

\* the words of "replicas 3 port 8080 nodeport", and a word matching nothing
ExtractVocab == {OverrideWord.replicas, PromptWord.n3, OverrideWord.port, PromptWord.n8080, OverrideWord.nodeport, PromptWord.hello}

\* further words of the four patterns, numbers of other lengths, mixed case
WideVocab ==
    ExtractVocab \cup
    {OverrideWord.replica, OverrideWord.to, OverrideWord.expose, OverrideWord.service, OverrideWord.container, OverrideWord.target,
     OverrideWord.loadbalancer, OverrideWord.clusterip, PromptWord.NodePort, PromptWord.n0, PromptWord.n99999, PromptWord.n123456}

\* phrases of the patterns, the number after the keyword and before it
ExtractPhrases ==
    {<<OverrideWord.container, OverrideWord.port, PromptWord.n8080>>,
     <<OverrideWord.target, OverrideWord.port, PromptWord.n99999>>,
     <<OverrideWord.service, OverrideWord.port, PromptWord.n8080>>,
     <<OverrideWord.expose, PromptWord.n8080>>,
     <<OverrideWord.replicas, OverrideWord.to, PromptWord.n3>>,
     <<PromptWord.n3, OverrideWord.replicas>>,
     <<OverrideWord.port, PromptWord.n3>>,
     <<PromptWord.hello>>}

\* the words of a sequence of phrases
RECURSIVE Flatten(_)
Flatten(ps) == IF Len(ps) = 0 THEN <<>> ELSE Head(ps) \o Flatten(Tail(ps))

ExtractTokenSeqs ==
    SeqsUpTo(ExtractVocab, MaxTokens) \cup SeqsUpTo(WideVocab, MaxShort)
    \cup {Flatten(ps) : ps \in SeqsUpTo(ExtractPhrases, MaxPhrases)}

ExIdle ==
    /\ exTokens = <<>>
    /\ exPrompt = <<>>
    /\ exPc = "off"
    /\ exOut = EmptyMap
    /\ exAgain = EmptyMap
    /\ exCfg = NoConfig

ExInit ==
    /\ exTokens \in ExtractTokenSeqs
    /\ exPrompt = Join(exTokens)
    /\ exPc = "idle"
    /\ exOut = EmptyMap
    /\ exAgain = EmptyMap
    /\ exCfg = NoConfig

ExExtract ==
    /\ exPc = "idle"
    /\ exOut' = ExtractOverrides(exPrompt)
    /\ exAgain' = ExtractOverrides(exPrompt)
    /\ exPc' = "extracted"
    /\ UNCHANGED <<exTokens, exPrompt, exCfg>>
    /\ UNCHANGED <<kVars, rvVars, rtVars, fcVars>>

ExBuildConfig ==
    /\ exPc = "extracted"
    /\ exCfg' = BuildK8sConfig(exOut)
    /\ exPc' = "built"
    /\ UNCHANGED <<exTokens, exPrompt, exOut, exAgain>>
    /\ UNCHANGED <<kVars, rvVars, rtVars, fcVars>>

ExNext == ExExtract \/ ExBuildConfig

InitExtract == ExInit /\ KIdle /\ RvIdle /\ RtIdle /\ FcIdle

SpecExtract == InitExtract /\ [][ExNext]_vars

InitK8s == KInit /\ ExIdle /\ RvIdle /\ RtIdle /\ FcIdle

InitReview == RvInit /\ ExIdle /\ KIdle /\ RtIdle /\ FcIdle

SpecReview == InitReview /\ [][RvNext]_vars

SpecK8s == InitK8s /\ [][KNext]_vars

InitRouter == RtInit /\ ExIdle /\ KIdle /\ RvIdle /\ FcIdle

SpecRouter == InitRouter /\ [][RtNext]_vars

InitFetch == FcInit /\ ExIdle /\ KIdle /\ RvIdle /\ RtIdle

SpecFetch == InitFetch /\ [][FcNext]_vars

Spec == SpecRouter

---------------------------------------------------------------------------
(* Claims about the override extractor *)

\* what the spec says "replicas 3 port 8080 nodeport" yields
C6_Expected ==
    ("replicas" :> 3) @@ ("service_port" :> 8080) @@ ("service_type" :> "NodePort")

C6_Words == <<OverrideWord.replicas, PromptWord.n3, OverrideWord.port, PromptWord.n8080, OverrideWord.nodeport>>

\* the orderings of a sequence of distinct words
Orderings(ws) ==
    {p \in [1..Len(ws) -> {ws[k] : k \in 1..Len(ws)}] :
        \A k \in 1..Len(ws) : \E j \in 1..Len(ws) : p[j] = ws[k]}

\* the orderings of the three phrases "replicas 3", "port 8080", "nodeport",
\* each phrase kept whole
C6_PhraseOrderings ==
    {p[1] \o p[2] \o p[3] :
        p \in Orderings(<< <<OverrideWord.replicas, PromptWord.n3>>, <<OverrideWord.port, PromptWord.n8080>>, <<OverrideWord.nodeport>> >>)}

IsNumber(w) == Len(w) > 0 /\ \A k \in 1..Len(w) : IsDigit(w[k])

\* The four patterns read off a prompt of words and numbers separated by
\* single spaces: a replicas word followed by a number, with "to" allowed
\* in between; a word ending in "port" or "expose" followed by a number of two
\* digits or more; one of the three service type names inside a word.
HasReplicasPhrase(ws) ==
    \E i \in 1..Len(ws) :
        /\ EndsWith(Lower(ws[i]), OverrideWord.replica) \/ EndsWith(Lower(ws[i]), OverrideWord.replicas)
        /\ \/ i + 1 <= Len(ws) /\ IsNumber(ws[i + 1])
           \/ i + 2 <= Len(ws) /\ Lower(ws[i + 1]) = OverrideWord.to /\ IsNumber(ws[i + 2])

HasPortPhrase(ws) ==
    \E i \in 1..(Len(ws) - 1) :
        /\ EndsWith(Lower(ws[i]), OverrideWord.port) \/ EndsWith(Lower(ws[i]), OverrideWord.expose)
        /\ IsNumber(ws[i + 1])
        /\ Len(ws[i + 1]) >= 2

HasServiceTypeWord(ws) ==
    \E i \in 1..Len(ws) :
        ContainsAny(Lower(ws[i]), {OverrideWord.loadbalancer, OverrideWord.nodeport, OverrideWord.clusterip})

HasOverridePhrase(ws) ==
    HasReplicasPhrase(ws) \/ HasPortPhrase(ws) \/ HasServiceTypeWord(ws)

\* C7: for every prompt that contains none of the four override patterns,
\* _extract_overrides returns an empty map and the KubernetesConfig built from
\* it has replicas 1, container_port 80, service_port 80, service_type
\* "ClusterIP".
C7_NoPatternDefaults ==
    (exPc # "idle" /\ ~HasOverridePhrase(exTokens))
        => /\ exOut = EmptyMap
           /\ exPc = "built" =>
                 /\ exCfg.replicas = 1
                 /\ exCfg.container_port = 80
                 /\ exCfg.service_port = 80
                 /\ exCfg.service_type = "ClusterIP"

\* a prompt with a keyword and a number in it, and still no pattern
C7_Witness ==
    /\ exPc = "built"
    /\ exTokens = <<OverrideWord.port, PromptWord.n3>>
    /\ ~HasOverridePhrase(exTokens)
    /\ exCfg.service_port = 80

\* the converse, as a check of the reading of the patterns above
PatternGivesOverride ==
    (exPc # "idle" /\ HasOverridePhrase(exTokens)) => exOut # EmptyMap


---------------------------------------------------------------------------
(* Claims about the Kubernetes agent *)

\* C8: generate_manifests is idempotent: a call by an agent that has already
\* generated its manifests, its config unchanged, leaves every file with the
\* content it had and returns the same two paths.
C8_GenerateIdempotent ==
    [][(KGenerate /\ kGenCalls >= 1) => (kFiles' = kFiles /\ kRet' = kRet)]_vars

\* an agent has generated twice and the files hold its manifests
C8_Witness ==
    /\ kOp = "generate"
    /\ kGenCalls = 2
    /\ kCfg.replicas = 3
    /\ kFiles[PathJoin(kCfg.manifests_dir, "deployment.yaml")] = DeploymentYaml(kCfg)
    /\ kFiles[PathJoin(kCfg.manifests_dir, "service.yaml")] = ServiceYaml(kCfg)

ApplyStatuses ==
    {"kubectl is not installed or not available in PATH.", "Error applying manifests",
     "kubectl apply failed", "kubectl apply succeeded"}

\* C9: apply_manifests never raises and returns a status string: the "not
\* installed" status when the cluster CLI is absent, the "apply failed"
\* status when the apply command exits non-zero; the namespace-create
\* command is attempted, before the apply command, only when the namespace
\* is not "default".
C9_ApplyReportsStatus ==
    kOp = "apply" =>
        /\ ~kStatus.raised
        /\ kStatus.status \in ApplyStatuses
        /\ kEnv = "absent" =>
              kStatus.status = "kubectl is not installed or not available in PATH."
        /\ kEnv = "failing" => kStatus.status = "kubectl apply failed"
        /\ \A i \in 1..Len(kCmds) :
              kCmds[i] = "kubectl create ns" => (kCfg.namespace # "default" /\ i = 1)
        /\ \A i \in 1..Len(kCmds) :
              kCmds[i] = "kubectl apply" => i = Len(kCmds)

\* the CLI is absent and the namespace is not the default one: the create
\* command was attempted and the call returned the "not installed" status
C9_Witness ==
    /\ kOp = "apply"
    /\ kEnv = "absent"
    /\ kCfg.namespace = "staging"
    /\ kCmds = <<"kubectl create ns">>
    /\ kStatus.status = "kubectl is not installed or not available in PATH."

---------------------------------------------------------------------------
(* Claims about the code review agent and the feedback parser *)

\* the inference call for file f raises
CallFails(f) == SendCodeReviewRequest(f.reply).raised # "none"

\* the batch of the claim: a perform_code_review that got the pull request's
\* files, in which the call for exactly one file k is made and fails
C3_OneFails ==
    /\ rvOp = "perform"
    /\ rvClient = "ok"
    /\ \E k \in 1..Len(rvFiles) :
          /\ Included(rvFiles[k].filename)
          /\ CallFails(rvFiles[k])
          /\ \A j \in 1..Len(rvFiles) : j # k => ~CallFails(rvFiles[j])

\* C3, as stated: on a batch of N submitted files where the inference call
\* for file k fails and all others succeed, perform_code_review returns
\* exactly N results in submission order, result k an error and every other
\* one a success.
C3_OneResultPerSubmittedFile ==
    C3_OneFails =>
        /\ Len(rvResult) = Len(rvFiles)
        /\ \A i \in 1..Len(rvResult) :
              /\ rvResult[i]["file"] = rvFiles[i].filename
              /\ IsError(rvResult[i]) <=> CallFails(rvFiles[i])

\* the files of the batch whose name ends in an allow-listed extension
C3_Reviewed == SelectSeq(rvFiles, LAMBDA f : Included(f.filename))

\* C3, amended: on such a batch perform_code_review returns exactly one
\* result for every submitted file whose name ends in an allow-listed
\* extension, in submission order, and none for the other files; the result
\* of file k carries an error and every other result is a success.
C3_OneResultPerReviewedFile ==
    C3_OneFails =>
        /\ Len(rvResult) = Len(C3_Reviewed)
        /\ \A i \in 1..Len(rvResult) :
              /\ rvResult[i]["file"] = C3_Reviewed[i].filename
              /\ IsError(rvResult[i]) <=> CallFails(C3_Reviewed[i])
        /\ Len(rvRequests) = Len(C3_Reviewed)

\* three files, the call for the second one fails, a file in between is skipped
C3_Witness ==
    /\ C3_OneFails
    /\ Len(rvFiles) = 3
    /\ Len(rvResult) = 2
    /\ ~IsError(rvResult[1])
    /\ IsError(rvResult[2])
    /\ rvResult[2]["file"] = rvFiles[3].filename

\* three allow-listed files, the call for the second one fails
C3_WitnessAllReviewed ==
    /\ C3_OneFails
    /\ Len(rvResult) = 3
    /\ ~IsError(rvResult[1])
    /\ IsError(rvResult[2])
    /\ ~IsError(rvResult[3])

SentinelFeedback == FeedbackOf(SentinelObj.v)

\* a reply that is not the expected JSON object: plain text, a fenced block
\* with invalid JSON, valid JSON that is no object, an object whose fields
\* have the wrong types
C4_Malformed(reply) ==
    \/ reply.form \in {"text", "fenced_invalid"}
    \/ /\ reply.form \in {"json", "fenced"}
       /\ \/ reply.value.t # "dict"
          \/ \E key \in DOMAIN reply.value.v \cap {"issues", "suggestions", "overall_quality"} :
                ~ValidFeedback((key :> reply.value.v[key]) @@ SentinelObj.v)

\* C4: for every model response that is malformed or not the expected JSON
\* object, the parser of send_code_review_request returns the sentinel
\* {issues: [], suggestions: [], overall_quality: "Unknown"} and never raises.
C4_MalformedYieldsSentinel ==
    (rvOp = "send" /\ C4_Malformed(rvReply))
        => (rvRaised = "none" /\ rvResult = SentinelFeedback)

\* the part of C4 the code keeps: text that holds no JSON at all
C4_NoJsonYieldsSentinel ==
    (rvOp = "send" /\ rvReply.form \in {"text", "fenced_invalid"})
        => (rvRaised = "none" /\ rvResult = SentinelFeedback)

\* C10: review_local_file on a path that cannot be read returns an error
\* result whose file tag is exactly that path, does not raise, and makes no
\* inference request.
C10_UnreadablePathIsErrorResult ==
    (rvOp = "local" /\ rvReadable # "ok")
        => /\ rvRaised = "none"
           /\ IsError(rvResult)
           /\ rvResult["file"] = rvPath
           /\ rvRequests = <<>>

\* a path with a directory in it that does not exist
C10_Witness ==
    /\ rvOp = "local"
    /\ rvReadable = "missing"
    /\ rvPath = <<"src", "gone.py">>
    /\ IsError(rvResult)

---------------------------------------------------------------------------
(* Claims about the prompt router *)

StepNames(run) == [i \in 1..Len(run.steps) |-> run.steps[i].name]

AllSteps ==
    <<"create_github_actions_pipeline", "create_dockerfile", "build_and_check_status",
      "predict_build", "k8s_generate_and_optionally_apply">>

\* the agent operations and commands behind the five steps
AllOps ==
    {"generate_pipeline", "generate_dockerfile", "docker build", "check_build_status",
     "predict_build_failure", "generate_manifests"}

HasAllKeyword(prompt) == ContainsAny(Normalize(prompt), {RouteWord.all, RouteWord.everything, RouteWord.run_all})

\* the five steps, once each and in order, predict given the status the build
\* step returned, the manifests generated with apply = false, nothing else
FiveStepsInOrder(run) ==
    /\ StepNames(run) = AllSteps
    /\ run.steps[4].status = run.steps[3].status
    /\ run.steps[5].apply = FALSE
    /\ \A i \in 1..Len(run.ops) : run.ops[i] \in AllOps

\* C1: for every prompt whose trimmed, lower-cased text contains one of the
\* "all" keywords, handle_prompt invokes exactly the five sub-steps, each once
\* and in order: pipeline, dockerfile, build-and-check-status, predict with the
\* status of the build step, manifests with apply = false; whatever other
\* keyword the prompt holds, and no other agent operation is invoked.
C1_AllRunsFiveSteps ==
    (rtPc = "done" /\ HasAllKeyword(rtPrompt)) => FiveStepsInOrder(rtRun)

\* what the code does keep of C1: the five steps whenever none of them raises
C1_FiveStepsUnlessRaised ==
    (rtPc = "done" /\ HasAllKeyword(rtPrompt) /\ rtRun.raised = "none")
        => FiveStepsInOrder(rtRun)

MatchingRules(prompt) == {i \in 1..Len(Rules) : Matches(Rules[i], Normalize(prompt))}

\* the functions of main.py the branch of a rule calls
StepsOf(rule) ==
    CASE rule = "all"        -> {AllSteps[i] : i \in 1..Len(AllSteps)}
      [] rule = "pipeline"   -> {"create_github_actions_pipeline"}
      [] rule = "dockerfile" -> {"create_dockerfile"}
      [] rule = "build"      -> {"build_and_check_status"}
      [] rule = "predict"    -> {"build_and_check_status", "predict_build"}
      [] rule = "kubernetes" -> {"k8s_generate_and_optionally_apply"}
      [] rule = "review"     -> {"review_local"}
      [] rule = "validate"   -> {"k8s_generate_and_optionally_apply"}

\* the function a branch calls first
FirstStepOf(rule) ==
    CASE rule = "all"      -> "create_github_actions_pipeline"
      [] rule = "predict"  -> "build_and_check_status"
      [] OTHER             -> CHOOSE x \in StepsOf(rule) : TRUE

\* C2: for every prompt in which the keyword sets of two or more rules
\* co-occur, handle_prompt runs the handler of the rule that comes first in
\* the ladder and no handler of a rule below it.
C2_FirstMatchingRuleOnly ==
    (rtPc = "done" /\ Cardinality(MatchingRules(rtPrompt)) >= 2)
        => LET hits == MatchingRules(rtPrompt)
               first == Rules[CHOOSE i \in hits : \A j \in hits : i <= j]
           IN  /\ rtBranch = first
               /\ Len(rtRun.steps) >= 1
               /\ rtRun.steps[1].name = FirstStepOf(first)
               /\ \A i \in 1..Len(rtRun.steps) : rtRun.steps[i].name \in StepsOf(first)

\* "dockerfile build": the dockerfile branch ran, the build did not
C2_Witness ==
    /\ rtPc = "done"
    /\ rtPrompt = Join(<<RouteWord.dockerfile, RouteWord.build>>)
    /\ rtBranch = "dockerfile"
    /\ rtEnv.creds
    /\ rtRun.ops = <<"generate_dockerfile">>

\* the failure modes the spec expects: a CLI that is not installed, a command
\* that exits non-zero, credentials that are not set, an API that is down
ExpectedFailuresOnly(env) == env.docker # "unrunnable"

\* C5: for every prompt and every branch it selects, handle_prompt returns
\* normally when an expected failure mode is present: the build CLI or the
\* cluster CLI absent, the credentials or the endpoint not set, the inference
\* API unreachable.
C5_ReturnsUnderExpectedFailures ==
    (rtPc = "done" /\ ExpectedFailuresOnly(rtEnv)) => rtRun.raised = "none"


---------------------------------------------------------------------------
(* Claims about the Kubernetes rule of the router *)

\* a replica count below one, or a port outside 1..65535
OutOfRange(cfg) ==
    \/ cfg.replicas < 1
    \/ cfg.container_port \notin 1..65535
    \/ cfg.service_port \notin 1..65535

\* the k8s_generate_and_optionally_apply calls of the run
K8sSteps == {i \in 1..Len(rtRun.steps) : rtRun.steps[i].name = "k8s_generate_and_optionally_apply"}

\* C11: for every prompt routed to the kubernetes rule, no KubernetesConfig
\* with a non-positive replica count or a non-positive or out-of-range port is
\* constructed, and no manifest file is written with such a value.
C11_OutOfRangeOverridesRejected ==
    (rtPc = "done" /\ rtBranch = "kubernetes") =>
        \A i \in K8sSteps :
            LET cfg == BuildK8sConfig(rtRun.steps[i].overrides)
            IN  OutOfRange(cfg) =>
                    /\ "generate_manifests" \notin {rtRun.ops[j] : j \in 1..Len(rtRun.ops)}
                    /\ \A path \in DOMAIN rtRun.files :
                          rtRun.files[path] \notin {DeploymentYaml(cfg), ServiceYaml(cfg)}

\* "deploy replicas 0" has been handled: the deployment manifest on disk asks
\* for zero replicas
C11_ZeroReplicasWritten ==
    /\ rtPc = "done"
    /\ rtBranch = "kubernetes"
    /\ rtPrompt = Join(<<RouteWord.deploy, OverrideWord.replicas, PromptWord.n0>>)
    /\ rtRun.files[PathJoin("k8s", "deployment.yaml")]
          = DeploymentYaml([BuildK8sConfig(EmptyMap) EXCEPT !.replicas = 0])

\* C15: for every prompt dispatched by the kubernetes rule, generate_manifests
\* is invoked exactly once, with the overrides extracted from the prompt;
\* apply_manifests is invoked if and only if the normalized prompt contains
\* "apply", "kubectl apply" or "deploy now", and then after generate_manifests.
C15_GenerateOnceApplyOnIntent ==
    (rtPc = "done" /\ rtBranch = "kubernetes") =>
        LET wantsApply ==
                ContainsAny(Lower(Strip(rtPrompt)),
                            {RouteWord.apply, RouteWord.kubectl_apply, RouteWord.deploy_now})
        IN  /\ Len(rtRun.steps) = 1
            /\ rtRun.steps[1].name = "k8s_generate_and_optionally_apply"
            /\ rtRun.steps[1].overrides = ExtractOverrides(rtPrompt)
            /\ rtRun.files[PathJoin("k8s", "deployment.yaml")]
                  = DeploymentYaml(BuildK8sConfig(ExtractOverrides(rtPrompt)))
            /\ rtRun.ops = IF wantsApply
                           THEN <<"generate_manifests", "apply_manifests">>
                           ELSE <<"generate_manifests">>

\* "deploy now" has been handled: manifests generated, then applied
C15_Witness ==
    /\ rtPc = "done"
    /\ rtBranch = "kubernetes"
    /\ rtPrompt = RouteWord.deploy_now
    /\ rtRun.ops = <<"generate_manifests", "apply_manifests">>

\* a kubernetes prompt without apply intent has been handled
C15_WitnessNoApply ==
    /\ rtPc = "done"
    /\ rtBranch = "kubernetes"
    /\ rtPrompt = RouteWord.manifests
    /\ rtRun.ops = <<"generate_manifests">>


---------------------------------------------------------------------------
(* Claims about posting feedback, fetching raw content and the absent client *)

\* the comments of all the entries of a feedback list, in order
CommentsOf(feedback) == [i \in 1..Len(feedback) |-> CommentFor(feedback[i])]

\* C12: post_feedback_to_github attempts exactly one comment per feedback
\* entry, in submission order, and a failure while posting the comment for
\* entry k does not prevent the posts for entries k+1..N from being attempted.
C12_EveryEntryPosted ==
    (rvOp = "post" /\ rvClient = "ok" /\ rvGithub = "up")
        => rvPosts = CommentsOf(rvFeedback)

\* three entries were given, the first comment failed, and no other comment
\* was attempted
C12_RestNotAttempted ==
    /\ rvOp = "post"
    /\ rvClient = "ok"
    /\ rvGithub = "up"
    /\ Len(rvFeedback) = 3
    /\ rvFailAt = {1}
    /\ Len(rvPosts) = 1
    /\ rvRaised = "GithubException"

\* C13: in perform_code_review a failure to fetch the raw content of file k
\* is captured as an error result for file k, and the remaining files are
\* still reviewed.
C13_FetchFailureIsErrorResult ==
    (rvOp = "perform" /\ rvClient = "ok")
        => /\ Len(rvResult) = Len(C3_Reviewed)
           /\ \A i \in 1..Len(C3_Reviewed) :
                 C3_Reviewed[i].raw = "fail" => IsError(rvResult[i])

\* the raw content of a file could not be fetched, the file was reviewed
\* with empty content and its result is a success
C13_FetchFailureReviewedEmpty ==
    /\ rvOp = "perform"
    /\ rvClient = "ok"
    /\ Len(rvFiles) = 1
    /\ Included(rvFiles[1].filename)
    /\ rvFiles[1].raw = "fail"
    /\ Len(rvResult) = 1
    /\ ~IsError(rvResult[1])
    /\ rvRequests[1].file_content = ""

\* the calls that go to source control
SourceControlOps == {"fetch", "perform", "post", "run"}

\* C18: when the source-control client is unavailable, fetch_pull_request_files,
\* post_feedback_to_github and run (and perform_code_review, through which run
\* goes) raise the RuntimeError "GitHub client unavailable", before any
\* inference request is sent or any comment is posted; with a client, no call
\* raises that error.
C18_UnavailableClientSignalled ==
    rvOp \in SourceControlOps =>
        /\ rvClient = "unavailable" =>
              /\ rvRaised = "RuntimeError"
              /\ rvRequests = <<>>
              /\ rvPosts = <<>>
        /\ rvClient = "ok" => rvRaised # "RuntimeError"

\* post_feedback_to_github was given feedback with no client and raised
C18_Witness ==
    /\ rvOp = "post"
    /\ rvClient = "unavailable"
    /\ Len(rvFeedback) = 2
    /\ rvRaised = "RuntimeError"
    /\ rvPosts = <<>>

\* run was called with no client on a pull request with files
C18_WitnessRun ==
    /\ rvOp = "run"
    /\ rvClient = "unavailable"
    /\ Len(rvFiles) = 2
    /\ rvRaised = "RuntimeError"
    /\ rvRequests = <<>>


---------------------------------------------------------------------------
(* Claims about fetch_config *)

\* the key of the remote result that corresponds to a config field
RemoteKey ==
    [base_image     |-> "baseImage",
     expose_port    |-> "exposePort",
     copy_source    |-> "copySource",
     work_dir       |-> "workDir",
     workflow_name  |-> "workflowName",
     python_version |-> "pythonVersion",
     run_tests      |-> "runTests",
     groq_api_endpoint |-> "groqApiEndpoint",
     groq_api_key      |-> "groqApiKey"]

\* the remote query returned a mapping with a non-empty value for the field
RemoteHolds(field) ==
    /\ fcResult.form = "mapping"
    /\ RemoteKey[field] \in DOMAIN fcResult.value
    /\ fcResult.value[RemoteKey[field]] \notin {JNull, JStr("")}

\* C14: after fetch_config on a generation agent every config field equals
\* the remote value only if the query returned a mapping with a non-empty
\* value for the corresponding field; in every other case (the query raises,
\* the result is no mapping, the field is missing or empty or null in it) the
\* field keeps the value it had before the call, and the other keys of the
\* result have no effect.
C14_FieldFromRemoteOrKept ==
    fcPc = "fetched" =>
        /\ DOMAIN fcCfg = DOMAIN fcBefore
        /\ \A field \in DOMAIN fcCfg :
              IF RemoteHolds(field)
              THEN fcCfg[field] = fcResult.value[RemoteKey[field]]
              ELSE fcCfg[field] = fcBefore[field]

\* the remote result holds runTests: null and the agent's run_tests went
\* from true to false
C14_NullTurnsTestsOff ==
    /\ fcPc = "fetched"
    /\ fcAgent = "github_actions"
    /\ fcResult.form = "mapping"
    /\ "runTests" \in DOMAIN fcResult.value
    /\ fcResult.value["runTests"] = JNull
    /\ fcBefore.run_tests = JBool(TRUE)
    /\ fcCfg.run_tests = JBool(FALSE)

\* the query returned None and the empty base image became the default one
C14_EmptyFieldReplaced ==
    /\ fcPc = "fetched"
    /\ fcAgent = "dockerfile"
    /\ fcResult = QueryNone
    /\ fcBefore.base_image = JStr("")
    /\ fcCfg.base_image = JStr("nginx:alpine")

\* the part of C14 that holds: a field whose value before the call is
\* non-empty keeps it unless the remote mapping holds a non-empty value for
\* it, runTests aside
C14_NonEmptyFieldKept ==
    fcPc = "fetched" =>
        \A field \in DOMAIN fcCfg \ {"run_tests"} :
            (Truthy(fcBefore[field]) /\ ~RemoteHolds(field)) => fcCfg[field] = fcBefore[field]


---------------------------------------------------------------------------
(* Claims about the predict rule and about prompts no rule matches *)

\* C16: for every prompt dispatched by the predict rule, build-and-check-status
\* is attempted first and predict is then invoked exactly once: with the
\* status the build step returned if it returned, with "Unknown" if it raised;
\* an error of the build step never prevents predict from running.
C16_PredictAfterBestEffortBuild ==
    (rtPc = "done" /\ rtBranch = "predict") =>
        /\ StepNames(rtRun) = <<"build_and_check_status", "predict_build">>
        /\ rtRun.ops[1] = "docker build"
        /\ rtRun.ops[Len(rtRun.ops)] = "predict_build_failure"
        /\ Cardinality({j \in 1..Len(rtRun.ops) : rtRun.ops[j] = "predict_build_failure"}) = 1
        /\ rtRun.steps[2].status =
              (IF rtEnv.docker = "unrunnable" THEN "Unknown" ELSE rtRun.steps[1].status)
        /\ rtEnv.docker # "unrunnable" => rtRun.steps[1].status # ""
        /\ rtRun.raised = "none"

\* the build step raised and predict ran with the sentinel
C16_Witness ==
    /\ rtPc = "done"
    /\ rtBranch = "predict"
    /\ rtEnv.docker = "unrunnable"
    /\ Len(rtRun.steps) = 2
    /\ rtRun.steps[2].name = "predict_build"
    /\ rtRun.steps[2].status = "Unknown"

\* the build step returned and predict ran with its status
C16_WitnessReturned ==
    /\ rtPc = "done"
    /\ rtBranch = "predict"
    /\ rtEnv.docker = "absent"
    /\ rtRun.steps[2].status = "Docker is not installed or not available in PATH."

\* the keywords of the eight rules
AllKeywords ==
    {RouteWord.all, RouteWord.everything, RouteWord.run_all,
     RouteWord.pipeline, RouteWord.github_actions, RouteWord.workflow,
     RouteWord.dockerfile, RouteWord.build, RouteWord.predict, RouteWord.prediction,
     RouteWord.k8s, RouteWord.kubernetes, RouteWord.deploy, RouteWord.manifest,
     RouteWord.manifests, RouteWord.review, RouteWord.code_review, RouteWord.lint,
     RouteWord.analyze_code, RouteWord.validate}

\* the prompt, trimmed and in lower case
Trimmed == Lower(Strip(rtPrompt))

\* C17: for every prompt that is empty after trimming, or that contains none
\* of the keywords of rules 1-8, handle_prompt invokes no agent operation and
\* writes no artifact: it prints exactly one message (help for the empty
\* prompt, unrecognized-intent otherwise) and returns without error.
C17_NoRuleNoEffect ==
    (rtPc = "done" /\ (Trimmed = <<>> \/ ~ContainsAny(Trimmed, AllKeywords))) =>
        /\ rtRun.steps = <<>>
        /\ rtRun.ops = <<>>
        /\ rtRun.files = rtBefore
        /\ rtRun.raised = "none"
        /\ rtRun.msgs = IF Trimmed = <<>> THEN <<"No task provided">>
                        ELSE <<"Unrecognized task">>

\* a prompt of blanks only has been answered with the help message
C17_Witness ==
    /\ rtPc = "done"
    /\ rtPrompt = <<" ", " ">>
    /\ rtRun.msgs = <<"No task provided">>
    /\ rtRun.ops = <<>>

\* a prompt with no keyword has been answered with the unrecognized message
C17_WitnessUnrecognized ==
    /\ rtPc = "done"
    /\ rtPrompt = PromptWord.now
    /\ rtRun.msgs = <<"Unrecognized task">>
    /\ rtRun.ops = <<>>


---------------------------------------------------------------------------
(* Claims about the replica phrasings and the two port patterns *)

\* the numbers that stand right after the word "replicas" in the prompt
C19_AfterKeyword ==
    {ParseInt(exTokens[i + 1]) : i \in {j \in 1..(Len(exTokens) - 1) :
        Lower(exTokens[j]) = OverrideWord.replicas /\ IsNumber(exTokens[j + 1])}}

\* the numbers that stand right before the word "replicas" in the prompt
C19_BeforeKeyword ==
    {ParseInt(exTokens[i]) : i \in {j \in 1..(Len(exTokens) - 1) :
        IsNumber(exTokens[j]) /\ Lower(exTokens[j + 1]) = OverrideWord.replicas}}

\* C19: _extract_overrides supports both replica phrasings of its
\* documentation: a prompt containing "replicas N" and a prompt containing
\* "N replicas" each yield an override map with replicas = N.
C19_BothPhrasingsYieldReplicas ==
    (exPc # "idle" /\ C19_AfterKeyword \cup C19_BeforeKeyword # {})
        => /\ "replicas" \in DOMAIN exOut
           /\ exOut["replicas"] \in C19_AfterKeyword \cup C19_BeforeKeyword

\* "3 replicas" has been extracted from and the map is empty
C19_NumberFirstIgnored ==
    /\ exPc # "idle"
    /\ exTokens = <<PromptWord.n3, OverrideWord.replicas>>
    /\ exOut = EmptyMap

\* the phrasing the pattern does support: "replicas N"
C19_KeywordThenNumber ==
    (exPc # "idle" /\ C19_AfterKeyword # {})
        => /\ "replicas" \in DOMAIN exOut
           /\ exOut["replicas"] \in C19_AfterKeyword

\* C20: whenever _extract_overrides puts container_port in the override map
\* it also puts service_port in it, so the config built from extracted
\* overrides never takes its service_port from the container_port fallback.
C20_ContainerPortImpliesServicePort ==
    (exPc # "idle" /\ "container_port" \in DOMAIN exOut)
        => /\ "service_port" \in DOMAIN exOut
           /\ exPc = "built" => exCfg.service_port = exOut["service_port"]

\* "container port 8080" has been extracted from: both ports are in the map
C20_Witness ==
    /\ exPc = "built"
    /\ exTokens = <<OverrideWord.container, OverrideWord.port, PromptWord.n8080>>
    /\ exOut = ("container_port" :> 8080) @@ ("service_port" :> 8080)
    /\ exCfg.service_port = 8080


=============================================================================
